---- MODULE Spec2Model ----
(***************************************************************************)
(* Model of the travel agent's orchestration pipeline                      *)
(* (src/src/agents/nodes.py, routers.py, graph.py).                        *)
(*                                                                         *)
(* Python values are modelled as follows.                                  *)
(*   - str            a TLA+ string; slicing is SubSeq, concatenation \o   *)
(*   - Optional[x]    None is <<>>, a present value v is <<v>>             *)
(*   - dict           a function whose DOMAIN is the set of keys present   *)
(*   - list           a sequence                                           *)
(*   - date           a triple <<year, month, day>>                        *)
(***************************************************************************)
EXTENDS Integers, Sequences, FiniteSets, TLC

VARIABLES
    today,      \* datetime.now().date() of the run
    raw,        \* what structured.invoke returned (None before intent_node ran)
    state,      \* the AgentState threaded through the graph
    pc,         \* the node the graph runs next; "END" when the run is over, "RAISED"
                \* when agent.invoke ended with an exception
    visited,    \* the nodes run so far, in order
    calls,      \* the external calls issued so far, in order
    cache,      \* airport_cache.cache: IATA code -> city name
    frame,      \* the locals of a node that is between two external calls, else None
    answer,     \* what the latest search call or backend request answered
    sessions,   \* session_service.sessions: session id -> stored session
    requests    \* the /query requests being served: position and locals of each

vars == <<today, raw, state, pc, visited, calls, cache, frame, answer, sessions, requests>>

\* the variables of one pipeline run
pipeline == <<today, raw, state, pc, visited, calls, cache, frame, answer>>

-----------------------------------------------------------------------------
(* Python values *)

None == <<>>
Some(v) == <<v>>

\* d.get(k)
Get(d, k) == IF k \in DOMAIN d THEN d[k] ELSE None

\* d[k] = v
Put(d, k, v) == [x \in (DOMAIN d) \cup {k} |-> IF x = k THEN v ELSE d[x]]

\* a test for None alone
Truthy_NotNone(v) == v # None

\* bool(v) for an Optional[str]: None and "" are falsy
Truthy(v) == v # None /\ v[1] # ""

\* sep.join(parts)
RECURSIVE Join(_, _)
Join(parts, sep) ==
    IF parts = <<>> THEN ""
    ELSE IF Len(parts) = 1 THEN parts[1]
    ELSE parts[1] \o sep \o Join(Tail(parts), sep)

\* sub in s
Contains(s, sub) ==
    \E k \in 1..(Len(s) - Len(sub) + 1) : SubSeq(s, k, k + Len(sub) - 1) = sub

\* s[:n]
Prefix(s, n) == SubSeq(s, 1, IF Len(s) < n THEN Len(s) ELSE n)

-----------------------------------------------------------------------------
(* datetime.fromisoformat on the calendar-date form YYYY-MM-DD.  The texts  *)
(* the model feeds it are either of that form or no ISO text at all.        *)

ValueError == <<>>

Digits == {"0", "1", "2", "3", "4", "5", "6", "7", "8", "9"}

DigitVal(c) ==
    CASE c = "0" -> 0 [] c = "1" -> 1 [] c = "2" -> 2 [] c = "3" -> 3
      [] c = "4" -> 4 [] c = "5" -> 5 [] c = "6" -> 6 [] c = "7" -> 7
      [] c = "8" -> 8 [] c = "9" -> 9

CharAt(s, k) == SubSeq(s, k, k)

RECURSIVE Num(_)
Num(s) ==
    IF Len(s) = 0 THEN 0
    ELSE Num(SubSeq(s, 1, Len(s) - 1)) * 10 + DigitVal(CharAt(s, Len(s)))

IsLeap(y) == (y % 4 = 0 /\ y % 100 # 0) \/ y % 400 = 0

DaysInMonth(y, m) ==
    IF m = 2 THEN (IF IsLeap(y) THEN 29 ELSE 28)
    ELSE IF m \in {4, 6, 9, 11} THEN 30 ELSE 31

fromisoformat(s) ==
    IF /\ Len(s) = 10
       /\ CharAt(s, 5) = "-"
       /\ CharAt(s, 8) = "-"
       /\ \A k \in {1, 2, 3, 4, 6, 7, 9, 10} : CharAt(s, k) \in Digits
    THEN LET y == Num(SubSeq(s, 1, 4))
             m == Num(SubSeq(s, 6, 7))
             d == Num(SubSeq(s, 9, 10))
         IN  IF y >= 1 /\ m \in 1..12 /\ d >= 1 /\ d <= DaysInMonth(y, m)
             THEN <<y, m, d>>
             ELSE ValueError
    ELSE ValueError

DateLT_OrEqual(a, b) ==
    \/ a[1] < b[1]
    \/ a[1] = b[1] /\ a[2] < b[2]
    \/ a[1] = b[1] /\ a[2] = b[2] /\ a[3] <= b[3]

\* date.__lt__
DateLT(a, b) ==
    \/ a[1] < b[1]
    \/ a[1] = b[1] /\ a[2] < b[2]
    \/ a[1] = b[1] /\ a[2] = b[2] /\ a[3] < b[3]

-----------------------------------------------------------------------------
(* intent_node: post-processing of the extraction *)

\* cast(TravelIntent, raw).model_dump() for a structured object, raw itself for a dict
\* lines 22-27: the prompt context built from the conversation history
ContextWindow == 4

\* a context that shows the whole history
LastMessages_All(history) == history

\* state.conversation_history[-4:]
LastMessages(history) ==
    SubSeq(history,
           IF Len(history) > ContextWindow THEN Len(history) - ContextWindow + 1 ELSE 1,
           Len(history))

RECURSIVE ContextLines(_)
ContextLines(msgs) ==
    IF msgs = <<>> THEN ""
    ELSE msgs[1].role \o ": " \o msgs[1].content \o "\n" \o ContextLines(Tail(msgs))

Context(history) ==
    IF history = <<>> THEN ""
    ELSE "\n\nPrevious conversation:\n" \o ContextLines(LastMessages(history))

Normalize(r) ==
    IF r.shape = "dict" THEN r.data
    ELSE [k \in {"intent", "origin", "destination", "check_in", "check_out",
                 "travelers", "reasoning"} |-> r.data[k]]

HotelSwap_Always(d) ==
    IF Get(d, "intent") = Some("hotel_search") /\ Truthy(Get(d, "origin"))
    THEN Put(Put(d, "destination", d["origin"]), "origin", None)
    ELSE d

\* Fix common mistakes for hotel searches
HotelSwap(d) ==
    IF /\ Get(d, "intent") = Some("hotel_search")
       /\ Truthy(Get(d, "origin"))
       /\ ~Truthy(Get(d, "destination"))
    THEN Put(Put(d, "destination", d["origin"]), "origin", None)
    ELSE d

Item(cond, text) == IF cond THEN <<text>> ELSE <<>>

FlightMissing_NoEquality(d) ==
    Item(~Truthy(Get(d, "origin")), "departure city/airport")
    \o Item(~Truthy(Get(d, "destination")), "arrival city/airport")
    \o Item(~Truthy(Get(d, "check_in")), "departure/travel date")

FlightMissing(d) ==
    Item(~Truthy(Get(d, "origin")), "departure city/airport")
    \o Item(~Truthy(Get(d, "destination")), "arrival city/airport")
    \o Item(/\ Truthy(Get(d, "origin"))
            /\ Truthy(Get(d, "destination"))
            /\ Get(d, "origin") = Get(d, "destination"),
            "arrival city/airport (cannot be same as departure)")
    \o Item(~Truthy(Get(d, "check_in")), "departure/travel date")

HotelMissing(d) ==
    Item(~Truthy(Get(d, "destination")), "destination city")
    \o Item(~Truthy(Get(d, "check_in")), "check-in date")
    \o Item(~Truthy(Get(d, "check_out")), "check-out date")

BothMissing(d) ==
    Item(~Truthy(Get(d, "origin")), "departure city/airport")
    \o Item(~Truthy(Get(d, "destination")), "destination city")
    \o Item(~Truthy(Get(d, "check_in")), "check-in/departure date")
    \o Item(~Truthy(Get(d, "check_out")), "check-out date")

\* intent_data["intent"] = "clarify"; intent_data["reasoning"] = text
\* a rewrite that also drops the dates
Clarify_DropDates(d, text) ==
    Put(Put(Put(Put(d, "intent", Some("clarify")), "reasoning", Some(text)),
            "check_in", None), "check_out", None)

Clarify(d, text) == Put(Put(d, "intent", Some("clarify")), "reasoning", Some(text))

ForceClarify(d, missing) ==
    IF missing # <<>> THEN Clarify(d, "Missing: " \o Join(missing, ", ")) ELSE d

Completeness_SkipBoth(d) ==
    LET original_intent == Get(d, "intent")
    IN  IF original_intent = Some("flight_search") THEN ForceClarify(d, FlightMissing(d))
        ELSE IF original_intent = Some("hotel_search") THEN ForceClarify(d, HotelMissing(d))
        ELSE d

\* the three STRICT VALIDATION blocks, selected by original_intent
Completeness(d) ==
    LET original_intent == Get(d, "intent")
    IN  IF original_intent = Some("flight_search") THEN ForceClarify(d, FlightMissing(d))
        ELSE IF original_intent = Some("hotel_search") THEN ForceClarify(d, HotelMissing(d))
        ELSE IF original_intent = Some("both") THEN ForceClarify(d, BothMissing(d))
        ELSE d

PastDateMsg == "Check-in/departure date cannot be in the past"
InvalidDateMsg == "Invalid date format. Please provide a valid date."

\* a guard that lets an unparseable date through
PastDateGuard_ParsedOnly(d, now) ==
    IF Truthy(Get(d, "check_in"))
    THEN LET check_in_date == fromisoformat(d["check_in"][1])
         IN  IF check_in_date = ValueError THEN d
             ELSE IF DateLT(check_in_date, now) THEN Clarify(d, PastDateMsg)
             ELSE d
    ELSE d

PastDateGuard(d, now) ==
    IF Truthy(Get(d, "check_in"))
    THEN LET check_in_date == fromisoformat(d["check_in"][1])
         IN  IF check_in_date = ValueError THEN Clarify(d, InvalidDateMsg)
             ELSE IF DateLT(check_in_date, now) THEN Clarify(d, PastDateMsg)
             ELSE d
    ELSE d

PostProcess_ValidateFirst(r, now) ==
    PastDateGuard(HotelSwap(Completeness(Normalize(r))), now)

\* the swap, then the completeness blocks, then the date guard
PostProcess(r, now) == PastDateGuard(Completeness(HotelSwap(Normalize(r))), now)

-----------------------------------------------------------------------------
(* AgentState and the merge of a node's returned dict into it *)

AgentState(query, conversation_history) ==
    [query |-> query,
     conversation_history |-> conversation_history,
     intent |-> None,
     flights |-> None,
     hotels |-> None,
     response |-> None,
     use_web_search |-> FALSE,
     search_query |-> None]

Merge_Replace(s, update) ==
    [k \in DOMAIN s |->
        IF k \in DOMAIN update THEN update[k]
        ELSE IF k \in {"query", "conversation_history"} THEN s[k]
        ELSE AgentState(s.query, s.conversation_history)[k]]

Merge(s, update) ==
    [k \in DOMAIN s |-> IF k \in DOMAIN update THEN update[k] ELSE s[k]]

\* an external call, as logged in calls: which API, its main argument, and a
\* number n: for a per-hotel offer request the offers accumulated when it was
\* issued, for a city search the hotel identifiers it produced, for a backend
\* request the position of the backend
Call(api, arg, n) == [api |-> api, arg |-> arg, n |-> n]

\* what the latest search call or backend request answered: its kind and how many
\* items it carried
Answer(api, arg, kind, n) == [api |-> api, arg |-> arg, kind |-> kind, n |-> n]

NoAnswer == Answer("", "", "", 0)

\* what a node hands back: the state update, the calls it issued, the cache after it
Result(update, issued, c) ==
    [update |-> update, issued |-> issued, cache |-> c, raised |-> FALSE]

\* the node lets an exception escape: no update reaches the state
Raise(issued, c) ==
    [update |-> <<>>, issued |-> issued, cache |-> c, frame |-> None, raised |-> TRUE]

-----------------------------------------------------------------------------
(* AirportCityCache.get_city_name *)

\* the city the provider's location lookup reports for a code
CityName(code) ==
    CASE code = "BOM" -> "Mumbai"
      [] code = "DEL" -> "Delhi"
      [] OTHER -> "City"

\* lookup is "ok" when get_location_info answers, "fail" when it raises or
\* returns nothing usable; returns [city, cache, issued]
get_city_name(c, iata_code, lookup) ==
    IF iata_code \in DOMAIN c
    THEN [city |-> c[iata_code], cache |-> c, issued |-> <<>>]
    ELSE IF lookup = "ok"
    THEN [city |-> CityName(iata_code),
          cache |-> Put(c, iata_code, CityName(iata_code)),
          issued |-> <<Call("get_location_info", iata_code, 0)>>]
    ELSE [city |-> iata_code, cache |-> c,
          issued |-> <<Call("get_location_info", iata_code, 0)>>]

Lookups == {"ok", "fail"}

-----------------------------------------------------------------------------
(* flight_tool *)

MonthName(m) ==
    CASE m = 1 -> "January" [] m = 2 -> "February" [] m = 3 -> "March"
      [] m = 4 -> "April" [] m = 5 -> "May" [] m = 6 -> "June"
      [] m = 7 -> "July" [] m = 8 -> "August" [] m = 9 -> "September"
      [] m = 10 -> "October" [] m = 11 -> "November" [] m = 12 -> "December"

\* date_obj.strftime("%B %d, %Y"), or the raw text when it does not parse
LongDate(text) ==
    LET date_obj == fromisoformat(text)
    IN  IF date_obj = ValueError THEN text
        ELSE MonthName(date_obj[2]) \o " " \o SubSeq(text, 9, 10) \o ", "
             \o SubSeq(text, 1, 4)

\* one offer of the flight provider
FlightOffer(origin, destination, date) ==
    [carrierCode |-> "AI", number |-> "101",
     departure |-> origin, arrival |-> destination,
     at |-> date \o "T18:05:00", total |-> 100, currency |-> "EUR"]

RECURSIVE Repeat(_, _)
Repeat(x, n) == IF n = 0 THEN <<>> ELSE <<x>> \o Repeat(x, n - 1)

SystemUnavailable == 141
ServerError == 500

\* the outage test on e.response.result; "raise" stands for the exception the
\* parsing throws on a payload that is no mapping
Classify(result) ==
    IF result.form = "none" THEN "raise"
    ELSE IF result.form = "empty" THEN "error"
    ELSE IF result.code = SystemUnavailable \/ result.status = ServerError THEN "outage"
    ELSE "error"

FlightCaught_ProviderOnly(out) == out.kind = "ResponseError"

\* what `except ResponseError` and `except Exception` catch between them
FlightCaught(out) == out.kind \in {"ResponseError", "Exception"}

\* i["travelers"] on an intent that has no such key
KeyError(key) == [kind |-> "Exception", n |-> 0, msg |-> "'" \o key \o "'"]

\* out: what amadeus_service.search_flights does; lo, ld: the two city lookups
flight_tool(s, c, out, lo, ld) ==
    IF s.intent = None
    THEN Result([response |-> Some("Internal error: missing intent")], <<>>, c)
    ELSE
    LET i == s.intent[1]
        searched == <<Call("search_flights", Get(i, "origin")[1], 0)>>
    IN  IF ~Truthy(Get(i, "origin"))
        THEN Result([flights |-> Some(<<>>),
                     response |-> Some("Missing origin airport code")], <<>>, c)
        ELSE IF ~Truthy(Get(i, "destination"))
        THEN Result([flights |-> Some(<<>>),
                     response |-> Some("Missing destination airport code")], <<>>, c)
        ELSE IF ~Truthy(Get(i, "check_in"))
        THEN Result([flights |-> Some(<<>>),
                     response |-> Some("Missing departure date")], <<>>, c)
        ELSE IF "travelers" \notin DOMAIN i
        THEN \* i["travelers"] raises KeyError before the call is made
             IF ~FlightCaught(KeyError("travelers")) THEN Raise(<<>>, c)
             ELSE Result([flights |-> Some(<<>>),
                          response |-> Some("Unexpected flight error: "
                                            \o KeyError("travelers").msg)], <<>>, c)
        ELSE IF out.kind # "data" /\ ~FlightCaught(out)
        THEN Raise(searched, c)
        ELSE IF out.kind = "data"
        THEN Result([flights |-> Some(Repeat(FlightOffer(i["origin"][1],
                                                         i["destination"][1],
                                                         i["check_in"][1]), out.n))],
                    searched, c)
        ELSE IF out.kind = "ResponseError"
        THEN IF Classify(out.result) = "outage"
             THEN LET o == get_city_name(c, i["origin"][1], lo)
                      d == get_city_name(o.cache, i["destination"][1], ld)
                      date_str == LongDate(i["check_in"][1])
                  IN  Result([flights |-> Some(<<>>),
                              response |-> None,
                              use_web_search |-> TRUE,
                              search_query |-> Some("flights from " \o o.city \o " to "
                                                    \o d.city \o " on " \o date_str
                                                    \o " price")],
                             searched \o o.issued \o d.issued, d.cache)
             ELSE Result([flights |-> Some(<<>>),
                          response |-> Some("Flight search error: " \o out.msg)],
                         searched, c)
        ELSE Result([flights |-> Some(<<>>),
                     response |-> Some("Unexpected flight error: " \o out.msg)],
                    searched, c)

-----------------------------------------------------------------------------
(* routers.py *)

\* a router that starts a search for every intent
router_AlwaysSearch(s) == "flight_tool"

router_NoFollowUp(s) ==
    IF s.intent = None THEN "clarify"
    ELSE LET intent == s.intent[1]["intent"]
         IN  IF intent = Some("flight_search") THEN "flight_tool"
             ELSE IF intent = Some("hotel_search") THEN "hotel_tool"
             ELSE IF intent = Some("both") THEN "flight_tool"
             ELSE "clarify"

router(s) ==
    IF s.intent = None THEN "clarify"
    ELSE LET intent == s.intent[1]["intent"]
         IN  IF intent = Some("flight_search") THEN "flight_tool"
             ELSE IF intent = Some("hotel_search") THEN "hotel_tool"
             ELSE IF intent = Some("both") THEN "flight_tool"
             ELSE IF intent = Some("follow_up") THEN "synthesis"
             ELSE "clarify"

\* a router that sends every run to the cascade
\* an edge back into the flight step
flight_tool_router_Again(s) == "flight_tool"

flight_tool_router_Always(s) == "web_search_fallback"

flight_tool_router_NoHotel(s) ==
    IF s.use_web_search THEN "web_search_fallback" ELSE "synthesis"

flight_tool_router_IntentFirst(s) ==
    IF s.intent # None /\ s.intent[1]["intent"] = Some("both") THEN "hotel_tool"
    ELSE IF s.use_web_search THEN "web_search_fallback"
    ELSE "synthesis"

flight_tool_router(s) ==
    IF s.use_web_search THEN "web_search_fallback"
    ELSE IF s.intent = None THEN "synthesis"
    ELSE IF s.intent[1]["intent"] = Some("both") THEN "hotel_tool"
    ELSE "synthesis"

-----------------------------------------------------------------------------
(* clarify_node *)

\* v if v is truthy, else ""
Shown(label, v) == IF Truthy(v) THEN label \o v[1] \o "\n" ELSE ""

clarify_node(s) ==
    LET intent_data == IF s.intent = None THEN <<>> ELSE s.intent[1]
        reasoning == IF "reasoning" \in DOMAIN intent_data
                     THEN intent_data["reasoning"] ELSE Some("")
        origin == Get(intent_data, "origin")
        destination == Get(intent_data, "destination")
        check_in == Get(intent_data, "check_in")
        check_out == Get(intent_data, "check_out")
        has_info == Shown("Departure: ", origin)
                    \o Shown("Destination: ", destination)
                    \o Shown("Check-in/Departure date: ", check_in)
                    \o Shown("Check-out date: ", check_out)
    IN  [response |-> Some(
            "I need more information to help you book your travel.\n\n"
            \o (IF Truthy(reasoning) THEN "**" \o reasoning[1] \o "**\n\n" ELSE "")
            \o (IF has_info # "" THEN "**What I have:**\n" \o has_info \o "\n" ELSE "")
            \o (IF Truthy(origin) /\ ~Truthy(destination)
                THEN "**What I need:**\nDestination/Arrival city\n"
                     \o (IF ~Truthy(check_in) THEN "Travel/Departure date\n" ELSE "")
                     \o "\n**Example:** 'to Delhi on 25th January'\n"
                ELSE IF Truthy(destination) /\ ~Truthy(origin)
                THEN "**What I need:**\nDeparture city\n"
                     \o (IF ~Truthy(check_in) THEN "Travel date\n" ELSE "")
                     \o "\n**Example:** 'from Mumbai on 25th January'\n"
                ELSE "**For flight bookings, I need:**\n**For hotel bookings, I need:**\n"
                     \o "**Examples:**\n"))]

-----------------------------------------------------------------------------
(* synthesis_node *)

DigitChar(n) == SubSeq("0123456789", n + 1, n + 1)

\* str(n) for n >= 0
RECURSIVE Str(_)
Str(n) == IF n < 10 THEN DigitChar(n) ELSE Str(n \div 10) \o DigitChar(n % 10)

TwoDigits(n) == DigitChar(n \div 10) \o DigitChar(n % 10)

\* dt.strftime("%d %b %Y, %I:%M %p") of an ISO timestamp YYYY-MM-DDTHH:MM:SS
TimeStr(at) ==
    LET hour == Num(SubSeq(at, 12, 13))
        h12 == IF hour % 12 = 0 THEN 12 ELSE hour % 12
    IN  SubSeq(at, 9, 10) \o " " \o Prefix(MonthName(Num(SubSeq(at, 6, 7))), 3) \o " "
        \o SubSeq(at, 1, 4) \o ", " \o TwoDigits(h12) \o ":" \o SubSeq(at, 15, 16)
        \o " " \o (IF hour < 12 THEN "AM" ELSE "PM")

\* EUR_TO_INR = 107.19, in hundredths
EUR_TO_INR_x100 == 10719
GBP_TO_INR == 125
USD_TO_INR == 83

\* int(price_eur * EUR_TO_INR) for a whole-number price
FlightPriceInr(total) == (total * EUR_TO_INR_x100) \div 100

\* every hotel price taken as euros
HotelPriceInr_EurOnly(currency, total) == (total * EUR_TO_INR_x100) \div 100

\* the per-currency branch of the hotel price
HotelPriceInr(currency, total) ==
    IF currency = "EUR" THEN (total * EUR_TO_INR_x100) \div 100
    ELSE IF currency = "GBP" THEN total * GBP_TO_INR
    ELSE IF currency = "USD" THEN total * USD_TO_INR
    ELSE total

\* the lines of the flights block: los[k] holds the two lookup outcomes of flight k;
\* returns [lines, cache, issued]
RECURSIVE FlightLines(_, _, _)
FlightLines(fs, c, los) ==
    IF fs = <<>> THEN [lines |-> <<>>, cache |-> c, issued |-> <<>>]
    ELSE LET f == Head(fs)
             dep == get_city_name(c, f.departure, Head(los)[1])
             arr == get_city_name(dep.cache, f.arrival, Head(los)[2])
             rest == FlightLines(Tail(fs), arr.cache, Tail(los))
             line == "  " \o f.carrierCode \o " " \o f.number \o " | "
                     \o dep.city \o " (" \o f.departure \o ") -> "
                     \o arr.city \o " (" \o f.arrival \o ")"
                     \o " | " \o TimeStr(f.at) \o " | INR " \o Str(FlightPriceInr(f.total))
         IN  [lines |-> <<line>> \o rest.lines, cache |-> rest.cache,
              issued |-> dep.issued \o arr.issued \o rest.issued]

\* the lines of one hotel entry
HotelEntryLines(idx, h) ==
    <<Str(idx) \o ". **" \o h.hotel.name \o "** (ID: "
      \o (IF h.hotel.hotelId = None THEN "N/A" ELSE h.hotel.hotelId[1]) \o ")">>
    \o (IF h.offers # <<>>
        THEN LET offer == h.offers[1]
                 \* price_info.get('currency', 'EUR')
                 currency == IF "currency" \in DOMAIN offer THEN offer.currency ELSE "EUR"
             IN  <<"   Price: INR " \o Str(HotelPriceInr(currency, offer.total))
                   \o " total (Base: INR " \o Str(HotelPriceInr(currency, offer.base))
                   \o ") | Currency: " \o currency,
                   "   Room: Standard Room | N/A bed(s) - N/A",
                   "   " \o offer.checkInDate \o " to " \o offer.checkOutDate,
                   "   Payment: N/A | Cancellation: N/A",
                   "   No cancellation info">>
        ELSE <<"   No pricing available for selected dates">>
             \o Item(h.hotel.cityName # "", "   Location: " \o h.hotel.cityName))
    \o <<"">>

RECURSIVE HotelLines(_, _)
HotelLines(hs, idx) ==
    IF hs = <<>> THEN <<>>
    ELSE HotelEntryLines(idx, Head(hs)) \o HotelLines(Tail(hs), idx + 1)

\* xs[:n]
\* a slice that keeps everything
Take_All(xs, n) == xs

Take(xs, n) == SubSeq(xs, 1, IF Len(xs) < n THEN Len(xs) ELSE n)

NoResultsMsg == "No results available for your search."

SynthesisText_NoFallback(lines) == Join(lines, "\n")

\* if not lines: return the no-results message; else "\n".join(lines)
SynthesisText(lines) == IF lines = <<>> THEN NoResultsMsg ELSE Join(lines, "\n")

ShownLimit == 5

synthesis_node(s, c, los) ==
    LET fl == IF s.flights # None /\ s.flights[1] # <<>>
              THEN FlightLines(Take(s.flights[1], ShownLimit), c, los)
              ELSE [lines |-> <<>>, cache |-> c, issued |-> <<>>]
        flight_lines == IF fl.lines # <<>>
                        THEN <<"**FLIGHTS:**">> \o fl.lines \o <<"">> ELSE <<>>
        hotel_lines == IF s.hotels # None /\ s.hotels[1] # <<>>
                       THEN <<"**HOTELS:**", "">>
                            \o HotelLines(Take(s.hotels[1], ShownLimit), 1)
                       ELSE <<>>
        lines == flight_lines \o hotel_lines
    IN  Result([response |-> Some(SynthesisText(lines))], fl.issued, fl.cache)

-----------------------------------------------------------------------------
(* hotel_tool.  The node is run one provider call at a time: Begin makes the   *)
(* phase-1 call, Offer makes one per-hotel request of the phase-2 loop.  While *)
(* the loop runs its locals are kept in a frame.                               *)

\* a step of a node: the state update so far, the calls issued, the cache, and
\* the locals of the node when it has not returned yet (None when it has)
Step(update, issued, c, f) ==
    [update |-> update, issued |-> issued, cache |-> c, frame |-> f, raised |-> FALSE]

\* one hotel of search_hotels_by_city; hotelId is None when the key is absent
Hotel(k, with_id) ==
    [hotelId |-> IF with_id THEN Some("H" \o Str(k)) ELSE None,
     name |-> "Hotel " \o Str(k),
     cityName |-> "City"]

\* one entry of search_hotel_offers for a hotel
HotelOffer(hotel_id, j, currency, check_in, check_out) ==
    [hotel |-> [hotelId |-> Some(hotel_id), name |-> "Hotel " \o hotel_id \o "/" \o Str(j),
                cityName |-> "City"],
     available |-> TRUE,
     offers |-> <<[currency |-> currency, total |-> 100, base |-> 90,
                   checkInDate |-> check_in, checkOutDate |-> check_out]>>]

HotelIdLimit == 30
OfferQuota == 5
BasicLimit == 5

\* [hotel['hotelId'] for hotel in hotels if 'hotelId' in hotel]
RECURSIVE IdsOf(_)
IdsOf(hotels) ==
    IF hotels = <<>> THEN <<>>
    ELSE (IF Head(hotels).hotelId # None THEN <<Head(hotels).hotelId[1]>> ELSE <<>>)
         \o IdsOf(Tail(hotels))

\* basic entries that claim availability
RECURSIVE BasicHotels_Available(_)
BasicHotels_Available(hotels) ==
    IF hotels = <<>> THEN <<>>
    ELSE <<[hotel |-> Head(hotels), available |-> TRUE, offers |-> <<>>]>>
         \o BasicHotels_Available(Tail(hotels))

RECURSIVE BasicHotels(_)
BasicHotels(hotels) ==
    IF hotels = <<>> THEN <<>>
    ELSE <<[hotel |-> Head(hotels), available |-> FALSE, offers |-> <<>>]>>
         \o BasicHotels(Tail(hotels))

\* the code after the phase-2 loop
HotelReturn(i, hotels_data, valid_offers) ==
    IF valid_offers # <<>> THEN [hotels |-> Some(valid_offers)]
    ELSE LET basic_hotels == BasicHotels(Take(hotels_data, BasicLimit))
         IN  IF basic_hotels # <<>>
             THEN [hotels |-> Some(basic_hotels),
                   response |-> Some("Found " \o Str(Len(basic_hotels)) \o " hotels in "
                                     \o i["destination"][1]
                                     \o ", but no pricing/availability for your dates."
                                     \o " Here are the hotels:")]
             ELSE [hotels |-> Some(<<>>),
                   response |-> Some("No available hotel offers in " \o i["destination"][1]
                                     \o " for " \o i["check_in"][1] \o " to "
                                     \o i["check_out"][1] \o ".")]

\* out: what amadeus_service.search_hotels_by_city does
hotel_tool_begin(s, c, out) ==
    IF s.intent = None
    THEN Step([response |-> Some("Internal error: missing intent")], <<>>, c, None)
    ELSE
    LET i == s.intent[1]
        searched == <<Call("search_hotels_by_city", Get(i, "destination")[1],
                          Len(IdsOf(Take(out.hotels, HotelIdLimit))))>>
    IN  IF ~Truthy(Get(i, "destination"))
        THEN Step([hotels |-> Some(<<>>),
                   response |-> Some("Missing destination city for hotel search")],
                  <<>>, c, None)
        ELSE IF ~Truthy(Get(i, "check_in")) \/ ~Truthy(Get(i, "check_out"))
        THEN Step([hotels |-> Some(<<>>),
                   response |-> Some("Missing check-in or check-out dates for hotel search")],
                  <<>>, c, None)
        ELSE IF out.kind = "data"
        THEN LET hotels_data == out.hotels
                 hotelIds == IdsOf(Take(hotels_data, HotelIdLimit))
             IN  IF hotels_data = <<>>
                 THEN Step([hotels |-> Some(<<>>),
                            response |-> Some("No hotels found in city: "
                                              \o i["destination"][1])],
                           searched, c, None)
                 ELSE IF hotelIds = <<>>
                 THEN Step([hotels |-> Some(<<>>),
                            response |-> Some("Could not extract hotel IDs")],
                           searched, c, None)
                 ELSE Step(<<>>, searched, c,
                           Some([hotels_data |-> hotels_data, hotelIds |-> hotelIds,
                                 k |-> 1, valid_offers |-> <<>>]))
        ELSE IF out.kind = "ResponseError"
        THEN Step([hotels |-> Some(<<>>),
                   response |-> Some("Hotel search error: " \o out.msg)], searched, c, None)
        ELSE Step([hotels |-> Some(<<>>),
                   response |-> Some("Unexpected hotel error: " \o out.msg)],
                  searched, c, None)

QuotaReached_NoBreak(valid_offers) == FALSE

RateLimited_Never(error_code) == FALSE

\* if "429" in error_code
RateLimited(error_code) == Contains(error_code, "429")

\* if len(valid_offers) >= 5: break
QuotaReached(valid_offers) == Len(valid_offers) >= OfferQuota

\* one iteration of `for hotel_id in hotelIds`, and the code after the loop when
\* this iteration is the last; out: what amadeus_service.search_hotel_offers does
hotel_tool_offer(s, c, f, out) ==
    LET i == s.intent[1]
        hotel_id == f.hotelIds[f.k]
        requested == <<Call("search_hotel_offers", hotel_id, Len(f.valid_offers))>>
        last == f.k = Len(f.hotelIds)
        Continue(valid_offers, issued) ==
            IF last THEN Step(HotelReturn(i, f.hotels_data, valid_offers), issued, c, None)
            ELSE Step(<<>>, issued, c,
                      Some([f EXCEPT !.k = f.k + 1, !.valid_offers = valid_offers]))
    IN  IF "travelers" \notin DOMAIN i
        THEN \* i['travelers'] raises KeyError, which only the outer handler catches
             Step([hotels |-> Some(<<>>),
                   response |-> Some("Unexpected hotel error: 'travelers'")], <<>>, c, None)
        ELSE IF out.kind = "data"
        THEN LET offer_data == out.offers
                 valid_offers == f.valid_offers \o offer_data
             IN  IF offer_data # <<>> /\ QuotaReached(valid_offers)
                 THEN Step(HotelReturn(i, f.hotels_data, valid_offers), requested, c, None)
                 ELSE Continue(valid_offers, requested)
        ELSE IF out.kind = "ResponseError"
        THEN IF RateLimited(out.msg)
             THEN Continue(f.valid_offers, requested \o <<Call("sleep", hotel_id, 0)>>)
             ELSE Continue(f.valid_offers, requested)
        ELSE Step([hotels |-> Some(<<>>),
                   response |-> Some("Unexpected hotel error: " \o out.msg)],
                  requested, c, None)

-----------------------------------------------------------------------------
(* web_search_fallback_node and get_fallback_message.  The node is run one     *)
(* backend request at a time: Primary tries one SearXNG instance, Secondary    *)
(* tries the HTML backend and, when that fails too, builds the static message. *)

searxng_instances ==
    <<"https://searx.be/search",
      "https://search.bus-hit.me/search",
      "https://searx.tiekoetter.com/search",
      "https://paulgo.io/search">>

ddg_url == "https://html.duckduckgo.com/html/"

TopResults == 5
SnippetLimit == 200

RECURSIVE RepeatStr(_, _)
RepeatStr(t, n) == IF n = 0 THEN "" ELSE t \o RepeatStr(t, n - 1)

\* the j-th result a backend reports: the first has a content longer than the
\* snippet limit, the second has none
WebResult(url, j) ==
    [title |-> Some("Fares " \o Str(j) \o " at " \o url),
     url |-> url \o "?r=" \o Str(j),
     content |-> IF j = 1 THEN RepeatStr("0123456789", 21)
                 ELSE IF j = 2 THEN "" ELSE "cheap fares"]

RECURSIVE WebResults(_, _, _)
WebResults(url, j, n) ==
    IF j > n THEN <<>> ELSE <<WebResult(url, j)>> \o WebResults(url, j + 1, n)

\* the first loop: title, url and content of each result
FlightInfo(r) == [title |-> r.title[1], url |-> r.url, snippet |-> r.content]

RECURSIVE InfoOf(_)
InfoOf(results) ==
    IF results = <<>> THEN <<>> ELSE <<FlightInfo(Head(results))>> \o InfoOf(Tail(results))

\* the second backend's loop: only the blocks that have a title element
RECURSIVE TitledInfoOf(_)
TitledInfoOf(results) ==
    IF results = <<>> THEN <<>>
    ELSE (IF Head(results).title # None THEN <<FlightInfo(Head(results))>> ELSE <<>>)
         \o TitledInfoOf(Tail(results))

RECURSIVE RenderItems(_, _)
RenderItems(flight_info, idx) ==
    IF flight_info = <<>> THEN ""
    ELSE LET info == Head(flight_info)
             snippet == IF info.snippet # "" THEN Prefix(info.snippet, SnippetLimit)
                        ELSE "No description available"
         IN  "\n**" \o Str(idx) \o ". " \o info.title \o "**\n" \o snippet \o "...\n"
             \o info.url \o "\n\n" \o RenderItems(Tail(flight_info), idx + 1)

OutageNote == "**Note: The live flight booking API is temporarily unavailable.**"
Disclaimer == "**Disclaimer:** The information above is from web search results and may not reflect current prices or availability."

RenderResponse(search_query, flight_info) ==
    "\n" \o OutageNote \o "\n\n**Here's what I found from web search for \""
    \o search_query \o "\":**\n\n" \o RenderItems(flight_info, 1)
    \o "\n**Recommendations:**\n" \o Disclaimer \o "\n"

StaticNote == "**The flight booking API is temporarily unavailable and web search is also having issues.**"

\* i.get(key, default) rendered in an f-string
Rendered(i, key, default) ==
    IF key \notin DOMAIN i THEN default
    ELSE IF i[key] = None THEN "None" ELSE i[key][1]

get_fallback_message(s, c, lo, ld) ==
    LET i == IF s.intent = None THEN <<>> ELSE s.intent[1]
        o == IF Truthy(Get(i, "origin")) THEN get_city_name(c, i["origin"][1], lo)
             ELSE [city |-> "departure city", cache |-> c, issued |-> <<>>]
        d == IF Truthy(Get(i, "destination"))
             THEN get_city_name(o.cache, i["destination"][1], ld)
             ELSE [city |-> "destination city", cache |-> o.cache, issued |-> <<>>]
        date == Rendered(i, "check_in", "your selected date")
    IN  [text |-> "\n" \o StaticNote \o "\n\n**Your Search Details:**\n- From: " \o o.city
                  \o "\n- To: " \o d.city \o "\n- Date: " \o date
                  \o "\n\n**What you can do:**\n- Google Flights: https://www.google.com/flights\n",
         cache |-> d.cache,
         issued |-> o.issued \o d.issued]

\* if not state.flights and state.use_web_search
FallbackArmed(s) == (s.flights = None \/ s.flights[1] = <<>>) /\ s.use_web_search

PrimarySucceeded_AnyStatus(out) == out.n > 0

\* a cascade that never stops at a primary instance
PrimarySucceeded_Never(out) == FALSE

\* if response.status_code == 200: ... if results:
PrimarySucceeded(out) == out.kind = "ok" /\ out.n > 0

PrimaryCaught_TimeoutOnly(out) == out.kind = "timeout"

\* what requests.get or response.json() raises and `except Exception` catches
PrimaryCaught(out) == out.kind \in {"timeout", "badjson"}

\* the same for requests.post in the second try block
SecondaryCaught(out) == out.kind \in {"timeout"}

\* timeout=10 of requests.get and requests.post, in seconds
RequestTimeout == 10

\* a request sent without a limit: a backend that never answers is waited for
Awaited_NoLimit(out, timeout) == out

\* what the caller gets back from a request sent with a timeout: a backend that
\* never answers becomes the Timeout exception once the limit has run out
Awaited(out, timeout) ==
    IF out.kind = "hang" /\ timeout > 0 THEN [out EXCEPT !.kind = "timeout"] ELSE out

\* the node waits for an answer that never comes: it neither returns nor raises
Block(issued, c) ==
    [update |-> <<>>, issued |-> issued, cache |-> c, frame |-> None, raised |-> FALSE,
     blocked |-> TRUE]

Blocked(r) == "blocked" \in DOMAIN r

\* one pass of `for searxng_url in searxng_instances`, preceded on the first pass
\* by the node's entry checks; out: what requests.get does for this instance
web_search_primary(s, c, f, out) ==
    LET search_query == IF s.search_query = None THEN "" ELSE s.search_query[1]
        k == IF f = None THEN 1 ELSE f[1].k
        searxng_url == searxng_instances[k]
        contacted == <<Call("GET", searxng_url, k)>>
        got == Awaited(out, RequestTimeout)
    IN  IF f = None /\ ~FallbackArmed(s) THEN Step(<<>>, <<>>, c, None)
        ELSE IF f = None /\ search_query = ""
        THEN Step([response |-> Some("Unable to search for flights at this time.")],
                  <<>>, c, None)
        ELSE IF got.kind = "hang"
        THEN Block(contacted, c)
        ELSE IF got.kind \in {"timeout", "badjson"} /\ ~PrimaryCaught(got)
        THEN Raise(contacted, c)
        ELSE IF PrimarySucceeded(got)
        THEN Step([response |->
                      Some(RenderResponse(search_query,
                                          InfoOf(Take(WebResults(searxng_url, 1, got.n),
                                                      TopResults))))],
                  contacted, c, None)
        ELSE Step(<<>>, contacted, c, Some([k |-> k + 1]))

\* the HTML backend and the static message; out: what requests.post does,
\* lo, ld: the two city lookups of get_fallback_message
web_search_secondary(s, c, out, lo, ld) ==
    LET search_query == IF s.search_query = None THEN "" ELSE s.search_query[1]
        results == Take(IF out.titled THEN WebResults(ddg_url, 1, out.n)
                        ELSE [j \in 1..out.n |->
                                 [WebResult(ddg_url, j) EXCEPT !.title = None]],
                        TopResults)
        flight_info == TitledInfoOf(results)
        contacted == <<Call("POST", ddg_url, Len(searxng_instances) + 1)>>
        static == get_fallback_message(s, c, lo, ld)
        got == Awaited(out, RequestTimeout)
    IN  IF got.kind = "hang"
        THEN Block(contacted, c)
        ELSE IF got.kind = "timeout" /\ ~SecondaryCaught(got)
        THEN Raise(contacted, c)
        ELSE IF got.kind = "ok" /\ flight_info # <<>>
        THEN Step([response |-> Some(RenderResponse(search_query, flight_info))],
                  contacted, c, None)
        ELSE Step([response |-> Some(static.text)],
                  contacted \o static.issued, static.cache, None)

-----------------------------------------------------------------------------
(* What the collaborators can answer *)

MaxFlights == 1
MaxHotels == 3
MaxOffersPerHotel == 3
MaxResults == 6

Todays == {<<2026, 12, 31>>, <<2027, 1, 1>>}

IntentTypes == {"flight_search", "hotel_search", "both", "clarify", "follow_up"}
Places == {None, Some(""), Some("BOM"), Some("DEL")}
CheckIns == {None, Some(""), Some("next friday"), Some("2026-02-30"),
             Some("2026-12-30"), Some("2026-12-31"), Some("2027-01-01")}
CheckOuts == {None, Some("2027-01-05")}

Keys == {"intent", "origin", "destination", "check_in", "check_out", "travelers",
         "reasoning"}

\* a TravelIntent object, or a dict that carries the same values without travelers
Raws ==
    LET Full == {[intent |-> Some(t), origin |-> o, destination |-> d, check_in |-> ci,
                  check_out |-> co, travelers |-> Some(1),
                  reasoning |-> Some("extracted from the query")] :
                    t \in IntentTypes, o \in Places, d \in Places,
                    ci \in CheckIns, co \in CheckOuts}
    IN  {[shape |-> "model", data |-> x] : x \in Full}
        \cup {[shape |-> "dict", data |-> [k \in Keys \ {"travelers"} |-> x[k]]] :
                x \in Full}

NoResult == [form |-> "none", code |-> 0, status |-> 0]

\* e.response.result of a ResponseError: no mapping, an empty mapping, or errors
ErrorResults ==
    {NoResult, [form |-> "empty", code |-> 0, status |-> 0]}
    \cup {[form |-> "errors", code |-> code, status |-> status] :
            code \in {SystemUnavailable, 425}, status \in {ServerError, 503, 400}}

FlightOutcomes ==
    {[kind |-> "data", n |-> n, result |-> NoResult, msg |-> ""] : n \in 0..MaxFlights}
    \cup {[kind |-> "ResponseError", n |-> 0, result |-> r,
           msg |-> "[" \o Str(r.status) \o "]"] : r \in ErrorResults}
    \cup {[kind |-> "Exception", n |-> 0, result |-> NoResult, msg |-> "connection reset"]}

\* n hotels of which the first m carry no hotelId
HotelList(n, m) == [k \in 1..n |-> Hotel(k, k > m)]

CityOutcomes ==
    {[kind |-> "data", hotels |-> HotelList(n, m), msg |-> ""] :
        n \in 0..MaxHotels, m \in {0, 1}}
    \cup {[kind |-> "ResponseError", hotels |-> <<>>, msg |-> "[500]"],
          [kind |-> "Exception", hotels |-> <<>>, msg |-> "connection reset"]}

\* what search_hotel_offers answers; the hotels past the first MaxHotels of a
\* long list have no offers or are refused
OfferOutcomes(hotel_id, i) ==
    IF hotel_id \in {"H" \o Str(k) : k \in 1..MaxHotels}
    THEN {[kind |-> "data",
           offers |-> [j \in 1..n |-> HotelOffer(hotel_id, j, "EUR", i["check_in"][1],
                                                 i["check_out"][1])],
           msg |-> ""] : n \in {0, 1, MaxOffersPerHotel}}
         \cup {[kind |-> "ResponseError", offers |-> <<>>, msg |-> m] :
                  m \in {"[429]", "[400]"}}
         \cup {[kind |-> "Exception", offers |-> <<>>, msg |-> "connection reset"]}
    ELSE {[kind |-> "data", offers |-> <<>>, msg |-> ""],
          [kind |-> "ResponseError", offers |-> <<>>, msg |-> "[400]"]}

\* a backend that never answers, a request that fails (timeout or connection
\* error), a 200 answer whose body is no JSON, a non-200 answer (whose body may
\* carry results all the same), and a 200 answer with n results
PrimaryOutcomes ==
    {[kind |-> k, n |-> 0] : k \in {"hang", "timeout", "badjson"}}
    \cup {[kind |-> "status", n |-> n] : n \in {0, 1}}
    \cup {[kind |-> "ok", n |-> n] : n \in {0, 1, MaxResults}}

SecondaryOutcomes ==
    {[kind |-> k, n |-> 0, titled |-> TRUE] : k \in {"hang", "timeout", "status"}}
    \cup {[kind |-> "ok", n |-> n, titled |-> t] : n \in {0, 1, MaxResults}, t \in BOOLEAN}

-----------------------------------------------------------------------------
(* The graph of create_agent: one action per node (per external call for the  *)
(* two nodes that loop), each followed by the edge that leaves the node.       *)

intent_node(r, now) == [intent |-> Some(PostProcess(r, now))]

Init ==
    /\ today \in Todays
    /\ raw = None
    /\ state = AgentState("book a trip", <<>>)
    /\ pc = "intent"
    /\ visited = <<>>
    /\ calls = <<>>
    /\ cache = <<>>
    /\ frame = None
    /\ answer = NoAnswer
    /\ sessions = <<>>
    /\ requests = <<>>

RunIntent ==
    /\ pc = "intent"
    /\ \E r \in Raws :
        /\ raw' = Some(r)
        /\ state' = Merge(state, intent_node(r, today))
    /\ pc' = router(state')
    /\ visited' = Append(visited, "intent")
    /\ calls' = Append(calls, Call("structured.invoke", state.query, 0))
    /\ UNCHANGED <<today, cache, frame, answer>>
    /\ UNCHANGED <<sessions, requests>>

RunFlightTool ==
    /\ pc = "flight_tool"
    /\ \E out \in FlightOutcomes, lo \in Lookups, ld \in Lookups :
        LET r == flight_tool(state, cache, out, lo, ld)
        IN  /\ state' = Merge(state, r.update)
            /\ calls' = calls \o r.issued
            /\ cache' = r.cache
            /\ answer' = IF r.issued = <<>> THEN answer
                         ELSE Answer("search_flights", r.issued[1].arg, out.kind, out.n)
            /\ pc' = IF r.raised THEN "RAISED" ELSE flight_tool_router(state')
    /\ visited' = Append(visited, "flight_tool")
    /\ UNCHANGED <<today, raw, frame>>
    /\ UNCHANGED <<sessions, requests>>

\* add_edge("hotel_tool", "synthesis")
RunHotelBegin ==
    /\ pc = "hotel_tool"
    /\ frame = None
    /\ \E out \in CityOutcomes :
        LET r == hotel_tool_begin(state, cache, out)
        IN  /\ state' = Merge(state, r.update)
            /\ calls' = calls \o r.issued
            /\ cache' = r.cache
            /\ frame' = r.frame
            /\ pc' = IF r.frame = None THEN "synthesis" ELSE "hotel_tool"
            /\ answer' = IF r.issued = <<>> THEN answer
                         ELSE Answer("search_hotels_by_city", r.issued[1].arg, out.kind,
                                     Len(out.hotels))
    /\ visited' = Append(visited, "hotel_tool")
    /\ UNCHANGED <<today, raw>>
    /\ UNCHANGED <<sessions, requests>>

RunHotelOffer ==
    /\ pc = "hotel_tool"
    /\ frame # None
    /\ \E out \in OfferOutcomes(frame[1].hotelIds[frame[1].k], state.intent[1]) :
        LET r == hotel_tool_offer(state, cache, frame[1], out)
        IN  /\ state' = Merge(state, r.update)
            /\ calls' = calls \o r.issued
            /\ cache' = r.cache
            /\ frame' = r.frame
            /\ pc' = IF r.frame = None THEN "synthesis" ELSE "hotel_tool"
            /\ answer' = IF r.issued = <<>> THEN answer
                         ELSE Answer("search_hotel_offers", r.issued[1].arg, out.kind,
                                     Len(out.offers))
    /\ UNCHANGED <<today, raw, visited>>
    /\ UNCHANGED <<sessions, requests>>

\* add_edge("clarify", END)
RunClarify ==
    /\ pc = "clarify"
    /\ state' = Merge(state, clarify_node(state))
    /\ pc' = "END"
    /\ visited' = Append(visited, "clarify")
    /\ UNCHANGED <<today, raw, calls, cache, frame, answer>>
    /\ UNCHANGED <<sessions, requests>>

Shown5(xs) == IF xs = None THEN 0 ELSE Len(Take(xs[1], ShownLimit))

\* add_edge("synthesis", END)
RunSynthesis ==
    /\ pc = "synthesis"
    /\ \E los \in [1..Shown5(state.flights) -> Lookups \X Lookups] :
        LET r == synthesis_node(state, cache, los)
        IN  /\ state' = Merge(state, r.update)
            /\ calls' = calls \o r.issued
            /\ cache' = r.cache
    /\ pc' = "END"
    /\ visited' = Append(visited, "synthesis")
    /\ UNCHANGED <<today, raw, frame, answer>>
    /\ UNCHANGED <<sessions, requests>>

\* add_edge("web_search_fallback", END)
RunFallbackPrimary ==
    /\ pc = "web_search_fallback"
    /\ IF frame = None THEN TRUE ELSE frame[1].k <= Len(searxng_instances)
    /\ \E out \in PrimaryOutcomes :
        LET r == web_search_primary(state, cache, frame, out)
        IN  /\ state' = Merge(state, r.update)
            /\ calls' = calls \o r.issued
            /\ cache' = r.cache
            /\ frame' = r.frame
            /\ pc' = IF Blocked(r) THEN "BLOCKED"
                     ELSE IF r.raised THEN "RAISED"
                     ELSE IF r.frame = None THEN "END" ELSE "web_search_fallback"
            /\ answer' = IF r.issued = <<>> THEN answer
                         ELSE Answer("GET", r.issued[1].arg, out.kind, out.n)
    /\ visited' = IF frame = None THEN Append(visited, "web_search_fallback") ELSE visited
    /\ UNCHANGED <<today, raw>>
    /\ UNCHANGED <<sessions, requests>>

RunFallbackSecondary ==
    /\ pc = "web_search_fallback"
    /\ frame # None
    /\ frame[1].k > Len(searxng_instances)
    /\ \E out \in SecondaryOutcomes, lo \in Lookups, ld \in Lookups :
        LET r == web_search_secondary(state, cache, out, lo, ld)
        IN  /\ state' = Merge(state, r.update)
            /\ calls' = calls \o r.issued
            /\ cache' = r.cache
            /\ frame' = r.frame
            /\ pc' = IF Blocked(r) THEN "BLOCKED" ELSE IF r.raised THEN "RAISED" ELSE "END"
            /\ answer' = Answer("POST", ddg_url, out.kind, IF out.titled THEN out.n ELSE 0)
    /\ UNCHANGED <<today, raw, visited>>
    /\ UNCHANGED <<sessions, requests>>

Next ==
    \/ RunIntent
    \/ RunFlightTool
    \/ RunHotelBegin
    \/ RunHotelOffer
    \/ RunClarify
    \/ RunSynthesis
    \/ RunFallbackPrimary
    \/ RunFallbackSecondary

Spec == Init /\ [][Next]_vars

-----------------------------------------------------------------------------
(* The routers as functions: every intent value, a missing intent included, in *)
(* the state the router is handed.                                             *)

RouterIntents ==
    {None}
    \cup {Some(Put(r.data, "intent", Some(t))) :
            r \in {x \in Raws : /\ x.shape = "model"
                                /\ x.data.check_in = None
                                /\ x.data.check_out = None},
            t \in IntentTypes \cup {"chitchat", ""}}

RouterInit ==
    /\ today \in Todays
    /\ raw = None
    /\ \E i \in RouterIntents, armed \in BOOLEAN,
          stage \in {"after intent", "after flight_tool"} :
        /\ stage = "after intent" => ~armed
        /\ state = Merge(AgentState("book a trip", <<>>),
                         [intent |-> i, use_web_search |-> armed])
        /\ pc = stage
    /\ visited = <<>>
    /\ calls = <<>>
    /\ cache = <<>>
    /\ frame = None
    /\ answer = NoAnswer
    /\ sessions = <<>>
    /\ requests = <<>>

\* add_conditional_edges("intent", router)
RouteAfterIntent ==
    /\ pc = "after intent"
    /\ pc' = router(state)
    /\ visited' = <<"router">>
    /\ UNCHANGED <<today, raw, state, calls, cache, frame, answer>>
    /\ UNCHANGED <<sessions, requests>>

\* add_conditional_edges("flight_tool", flight_tool_router)
RouteAfterFlightTool ==
    /\ pc = "after flight_tool"
    /\ pc' = flight_tool_router(state)
    /\ visited' = <<"flight_tool_router">>
    /\ UNCHANGED <<today, raw, state, calls, cache, frame, answer>>
    /\ UNCHANGED <<sessions, requests>>

RouterNext == RouteAfterIntent \/ RouteAfterFlightTool

RouterSpec == RouterInit /\ [][RouterNext]_vars

-----------------------------------------------------------------------------
(* synthesis_node as a function of the results it is handed: hotel offers in   *)
(* every currency, an offer that carries no currency, flights priced in euros  *)
(* or dollars.                                                                 *)

Currencies == {"EUR", "GBP", "USD", "INR"}

\* an offer whose price carries no 'currency' key
WithoutCurrency(h) ==
    [h EXCEPT !.offers = <<[k \in DOMAIN h.offers[1] \ {"currency"} |-> h.offers[1][k]]>>]

PricedHotels ==
    {HotelOffer("H1", 1, c, "2026-12-31", "2027-01-05") : c \in Currencies}
    \cup {WithoutCurrency(HotelOffer("H1", 1, "EUR", "2026-12-31", "2027-01-05"))}

PricedFlights ==
    {[FlightOffer("BOM", "DEL", "2026-12-31") EXCEPT !.currency = c] : c \in {"EUR", "USD"}}

SynthesisInit ==
    /\ today \in Todays
    /\ raw = None
    /\ \E flights \in {None} \cup {Some(<<f>>) : f \in PricedFlights},
          hotels \in {None} \cup {Some(<<h>>) : h \in PricedHotels}
                         \cup {Some(<<h, g>>) : h \in PricedHotels, g \in PricedHotels} :
        state = Merge(AgentState("flights and hotels", <<>>),
                      [flights |-> flights, hotels |-> hotels])
    /\ pc = "synthesis"
    /\ visited = <<>>
    /\ calls = <<>>
    /\ cache = <<>>
    /\ frame = None
    /\ answer = NoAnswer
    /\ sessions = <<>>
    /\ requests = <<>>

SynthesisSpec == SynthesisInit /\ [][RunSynthesis]_vars

-----------------------------------------------------------------------------
(* flight_tool and hotel_tool as functions of the state they are handed: an    *)
(* intent of any completeness, as the nodes do not rely on the validation that *)
(* intent_node ran before them.                                                *)

ToolIntents ==
    {[intent |-> Some(t), origin |-> o, destination |-> d, check_in |-> ci,
      check_out |-> co, travelers |-> Some(1), reasoning |-> Some("extracted")] :
        t \in {"flight_search", "hotel_search", "both"},
        o \in {None, Some(""), Some("BOM")},
        d \in {None, Some(""), Some("DEL")},
        ci \in {None, Some(""), Some("2026-12-31")},
        co \in {None, Some(""), Some("2027-01-05")}}

ToolInit ==
    /\ today \in Todays
    /\ raw = None
    /\ \E i \in ToolIntents :
        /\ state = Merge(AgentState("book a trip", <<>>), [intent |-> Some(i)])
        /\ pc = IF i["intent"] = Some("hotel_search") THEN "hotel_tool" ELSE "flight_tool"
    /\ visited = <<>>
    /\ calls = <<>>
    /\ cache = <<>>
    /\ frame = None
    /\ answer = NoAnswer
    /\ sessions = <<>>
    /\ requests = <<>>

ToolNext == RunFlightTool \/ RunHotelBegin \/ RunHotelOffer

ToolSpec == ToolInit /\ [][ToolNext]_vars

-----------------------------------------------------------------------------
(* The cascade from its entry to its return.  It starts in the states in which *)
(* the graph enters web_search_fallback: an extraction, the flight step, an     *)
(* outage answer of the flight provider.  The node is sequential code that is  *)
(* run to its return once it is entered, hence the weak fairness of its steps. *)

\* the extractions that the first router sends to the flight step
FlightBound(now) ==
    {r \in Raws :
        router(Merge(AgentState("book a trip", <<>>), intent_node(r, now))) = "flight_tool"}

\* the provider errors that flight_tool takes for an outage
OutageOutcomes ==
    {out \in FlightOutcomes : out.kind = "ResponseError" /\ Classify(out.result) = "outage"}

\* the run up to the edge that leaves the flight step
Entry(now, r, out, lo, ld) ==
    LET extracted == Merge(AgentState("book a trip", <<>>), intent_node(r, now))
        flown == flight_tool(extracted, <<>>, out, lo, ld)
        entered == Merge(extracted, flown.update)
    IN  [today |-> now,
         raw |-> Some(r),
         state |-> entered,
         calls |-> <<Call("structured.invoke", "book a trip", 0)>> \o flown.issued,
         cache |-> flown.cache,
         answer |-> IF flown.issued = <<>> THEN NoAnswer
                    ELSE Answer("search_flights", flown.issued[1].arg, out.kind, out.n),
         next |-> IF flown.raised THEN "RAISED" ELSE flight_tool_router(entered)]

CascadeEntries ==
    {e \in UNION {{Entry(now, r, out, lo, ld) :
                      r \in FlightBound(now), out \in OutageOutcomes,
                      lo \in Lookups, ld \in Lookups} : now \in Todays} :
        e.next = "web_search_fallback"}

CascadeInit ==
    /\ \E e \in CascadeEntries :
        /\ today = e.today
        /\ raw = e.raw
        /\ state = e.state
        /\ calls = e.calls
        /\ cache = e.cache
        /\ answer = e.answer
    /\ pc = "web_search_fallback"
    /\ visited = <<"intent", "flight_tool">>
    /\ frame = None
    /\ sessions = <<>>
    /\ requests = <<>>

CascadeNext == RunFallbackPrimary \/ RunFallbackSecondary

CascadeSpec == CascadeInit /\ [][CascadeNext]_vars /\ WF_vars(CascadeNext)

-----------------------------------------------------------------------------
(* QueryValidator *)

MaxQueryLen == 1000

Upper == "ABCDEFGHIJKLMNOPQRSTUVWXYZ"
Lowercase == "abcdefghijklmnopqrstuvwxyz"
HexDigits == {CharAt("0123456789abcdef", k) : k \in 1..16}
WordChars == {CharAt(Lowercase \o "0123456789_", k) : k \in 1..37}

LowerChar(c) ==
    IF \E k \in 1..26 : CharAt(Upper, k) = c
    THEN CharAt(Lowercase, CHOOSE k \in 1..26 : CharAt(Upper, k) = c)
    ELSE c

\* s.lower()
RECURSIVE Lower(_)
Lower(s) == IF s = "" THEN "" ELSE LowerChar(CharAt(s, 1)) \o Lower(SubSeq(s, 2, Len(s)))

\* s.split(): the maximal runs of non-blank characters
RECURSIVE Split(_, _)
Split(s, word) ==
    IF s = "" THEN Item(word # "", word)
    ELSE IF CharAt(s, 1) = " "
    THEN Item(word # "", word) \o Split(SubSeq(s, 2, Len(s)), "")
    ELSE Split(SubSeq(s, 2, Len(s)), word \o CharAt(s, 1))

BLOCKED_PATTERNS ==
    <<"<script>", "javascript:", "onerror=", "onclick=", "eval(", "exec(", "__import__">>

\* re.search of the four SQL_INJECTION_PATTERNS, case-insensitive
SqlInjection(query) ==
    LET words == Split(Lower(query), "")
        FollowedBy(a, b) ==
            \E k \in 1..(Len(words) - 1) :
                /\ Len(words[k]) >= Len(a)
                /\ SubSeq(words[k], Len(words[k]) - Len(a) + 1, Len(words[k])) = a
                /\ (Len(words[k]) = Len(a)
                    \/ CharAt(words[k], Len(words[k]) - Len(a)) \notin WordChars)
                /\ Prefix(words[k + 1], Len(b)) = b
                /\ (Len(words[k + 1]) = Len(b)
                    \/ CharAt(words[k + 1], Len(b) + 1) \notin WordChars)
        last == IF words = <<>> THEN "" ELSE words[Len(words)]
    IN  \/ Contains(Join(words, ""), "'or'1'='1")
        \/ FollowedBy("drop", "table")
        \/ FollowedBy("union", "select")
        \/ Len(last) >= 2 /\ SubSeq(last, Len(last) - 1, Len(last)) = "--"

\* sanitize_query without the SQL_INJECTION_PATTERNS loop of lines 45-48
sanitize_query_NoSql(query) ==
    IF query = "" THEN ValueError
    ELSE IF Len(query) > MaxQueryLen THEN ValueError
    ELSE IF \E k \in 1..Len(BLOCKED_PATTERNS) : Contains(Lower(query), BLOCKED_PATTERNS[k])
    THEN ValueError
    ELSE Some(Join(Split(query, ""), " "))

\* the sanitized query, or ValueError
sanitize_query(query) ==
    IF query = "" THEN ValueError
    ELSE IF Len(query) > MaxQueryLen THEN ValueError
    ELSE IF \E k \in 1..Len(BLOCKED_PATTERNS) : Contains(Lower(query), BLOCKED_PATTERNS[k])
    THEN ValueError
    ELSE IF SqlInjection(query) THEN ValueError
    ELSE Some(Join(Split(query, ""), " "))

\* uuid.UUID(session_id) succeeds: 32 hexadecimal digits once the hyphens are dropped
validate_session_id(session_id) ==
    IF session_id = "" THEN TRUE
    ELSE LET hex == Join(Split(Join([k \in 1..Len(session_id) |->
                                        IF CharAt(session_id, k) = "-" THEN " "
                                        ELSE LowerChar(CharAt(session_id, k))], ""),
                               ""), "")
         IN  /\ Len(hex) = 32
             /\ \A k \in 1..32 : CharAt(hex, k) \in HexDigits

-----------------------------------------------------------------------------
(* SessionService *)

Session(session_id, created_at) ==
    [session_id |-> session_id,
     conversation_history |-> <<>>,
     last_intent |-> None,
     last_flights |-> None,
     last_hotels |-> None,
     created_at |-> created_at]

\* fresh: the value of str(uuid.uuid4()); returns the caller's own copy of the
\* session and the store after the call
get_or_create_session(store, session_id, fresh) ==
    IF Truthy(session_id) /\ session_id[1] \in DOMAIN store
    THEN [session |-> store[session_id[1]], sessions |-> store]
    ELSE LET new_session_id == IF Truthy(session_id) THEN session_id[1] ELSE fresh
             session == Session(new_session_id, "now")
         IN  [session |-> session, sessions |-> Put(store, new_session_id, session)]

update_session(store, session) == Put(store, session.session_id, session)

-----------------------------------------------------------------------------
(* POST /query.  A request is served by a worker thread of its own; the steps *)
(* below are the stretches of query_agent between its uses of the session     *)
(* store and its call of the agent.                                           *)

MaxRequests == 2
Requests == 1..MaxRequests

SessionId == "123e4567-e89b-12d3-a456-426614174000"

Turn(role, content) == [role |-> role, content |-> content]

PriorTurns == <<Turn("user", "hotels in goa"), Turn("assistant", "Missing: check-in date")>>

uuid4(r) == "00000000-0000-4000-8000-00000000000" \o Str(r)

\* a text of n characters
RECURSIVE Filler(_)
Filler(n) ==
    IF n = 0 THEN ""
    ELSE LET half == Filler(n \div 2)
         IN  half \o half \o (IF n % 2 = 1 THEN "a" ELSE "")

Queries(r) ==
    {"find  flights to goa #" \o Str(r), "", "<SCRIPT>alert(1)</script>",
     "x' OR '1'='1", Filler(MaxQueryLen + 1)}

SessionIds == {None, Some(SessionId), Some("not-a-uuid")}

\* what agent.invoke does for request r: a final state, or an exception
AgentOutcomes(r) ==
    {[kind |-> "state", response |-> Some("Answer #" \o Str(r)),
      intent |-> Some("flight_search"), flights |-> Some(<<"AI 101">>), hotels |-> None],
     [kind |-> "state", response |-> None,
      intent |-> Some("both"), flights |-> Some(<<>>), hotels |-> None],
     [kind |-> "raise", response |-> None,
      intent |-> None, flights |-> None, hotels |-> None]}

Idle == [at |-> "idle", query |-> "", session |-> None, result |-> None, status |-> 0]

\* raise HTTPException: nothing of the request is kept
Rejected(status) ==
    [at |-> "rejected", query |-> "", session |-> None, result |-> None, status |-> status]

SessionInit ==
    /\ today \in Todays
    /\ raw = None
    /\ state = AgentState("", <<>>)
    /\ pc = "api"
    /\ visited = <<>>
    /\ calls = <<>>
    /\ cache = <<>>
    /\ frame = None
    /\ answer = NoAnswer
    /\ sessions \in {<<>>,
                     Put(<<>>, SessionId,
                         [Session(SessionId, "earlier") EXCEPT
                             !.conversation_history = PriorTurns])}
    /\ requests = [r \in Requests |-> Idle]

\* a handler that saves the session as soon as the user turn is appended
query_agent_receive_Saving(store, query, session_id, fresh) ==
    LET sanitized_query == sanitize_query(query)
    IN  IF sanitized_query = ValueError
        THEN [request |-> Rejected(500), sessions |-> store]
        ELSE IF Truthy(session_id) /\ ~validate_session_id(session_id[1])
        THEN [request |-> Rejected(500), sessions |-> store]
        ELSE LET got == get_or_create_session(store, session_id, fresh)
                 session == [got.session EXCEPT
                                !.conversation_history =
                                    Append(@, Turn("user", sanitized_query[1]))]
             IN  [request |-> [at |-> "invoke", query |-> sanitized_query[1],
                               session |-> Some(session), result |-> None,
                               status |-> 0],
                  sessions |-> update_session(got.sessions, session)]

\* lines 15-42 for one request body: validation, the session lookup, the user
\* turn; the request as it stands before agent.invoke, and the store
query_agent_receive(store, query, session_id, fresh) ==
    LET sanitized_query == sanitize_query(query)
    IN  IF sanitized_query = ValueError
        THEN [request |-> Rejected(500), sessions |-> store]
        ELSE IF Truthy(session_id) /\ ~validate_session_id(session_id[1])
        THEN [request |-> Rejected(500), sessions |-> store]
        ELSE LET got == get_or_create_session(store, session_id, fresh)
                 session == [got.session EXCEPT
                                !.conversation_history =
                                    Append(@, Turn("user", sanitized_query[1]))]
             IN  [request |-> [at |-> "invoke", query |-> sanitized_query[1],
                               session |-> Some(session), result |-> None,
                               status |-> 0],
                  sessions |-> got.sessions]

Receive(r) ==
    /\ requests[r].at = "idle"
    /\ \E query \in Queries(r), session_id \in SessionIds :
        LET got == query_agent_receive(sessions, query, session_id, uuid4(r))
        IN  /\ requests' = [requests EXCEPT ![r] = got.request]
            /\ sessions' = got.sessions
    /\ UNCHANGED pipeline

\* lines 45-48: agent.invoke and the test of its response
Invoke(r) ==
    /\ requests[r].at = "invoke"
    /\ \E out \in AgentOutcomes(r) :
        requests' = [requests EXCEPT ![r] =
                        IF out.kind = "raise" \/ ~Truthy(out.response)
                        THEN [@ EXCEPT !.at = "failed", !.status = 500]
                        ELSE [@ EXCEPT !.at = "respond", !.result = Some(out)]]
    /\ UNCHANGED <<pipeline, sessions>>

\* lines 51-73: the assistant turn, the last results, update_session
Respond(r) ==
    /\ requests[r].at = "respond"
    /\ LET result == requests[r].result[1]
           session == [requests[r].session[1] EXCEPT
                          !.conversation_history =
                              Append(@, Turn("assistant", result.response[1])),
                          !.last_intent = result.intent,
                          !.last_flights = result.flights,
                          !.last_hotels = result.hotels]
       IN  /\ sessions' = update_session(sessions, session)
           /\ requests' = [requests EXCEPT ![r] =
                              [@ EXCEPT !.at = "done", !.session = Some(session),
                                        !.status = 200]]
    /\ UNCHANGED pipeline

SessionNext == \E r \in Requests : Receive(r) \/ Invoke(r) \/ Respond(r)

SessionSpec == SessionInit /\ [][SessionNext]_vars

-----------------------------------------------------------------------------
(* DELETE /session/{session_id} next to POST /query *)

\* whether the id was stored, and the store after the call
delete_session(store, session_id) ==
    IF session_id \in DOMAIN store
    THEN [ok |-> TRUE,
          sessions |-> IF DOMAIN store = {session_id} THEN <<>>
                       ELSE [x \in (DOMAIN store) \ {session_id} |-> store[x]]]
    ELSE [ok |-> FALSE, sessions |-> store]

get_session(store, session_id) == Get(store, session_id)

\* clear_session: "Session cleared", or 404 with the store as it was
ClearSession ==
    /\ sessions' = delete_session(sessions, SessionId).sessions
    /\ UNCHANGED <<pipeline, requests>>

ClearSpec == SessionInit /\ [][SessionNext \/ ClearSession]_vars

-----------------------------------------------------------------------------
(* Phase 2 of hotel_tool on a phase-1 list longer than the identifier limit:   *)
(* the node is entered with a complete hotel_search intent and                *)
(* search_hotels_by_city has answered with MaxPhase1 hotels, the first of     *)
(* which may lack its hotelId.                                                *)

MaxPhase1 == 31

LongHotelIntent ==
    [intent |-> Some("hotel_search"), origin |-> None, destination |-> Some("DEL"),
     check_in |-> Some("2026-12-31"), check_out |-> Some("2027-01-05"),
     travelers |-> Some(1), reasoning |-> Some("extracted from the query")]

\* hotel_tool up to its first offer request
PhaseTwoEntries ==
    {hotel_tool_begin(Merge(AgentState("hotels in delhi", <<>>),
                            [intent |-> Some(LongHotelIntent)]),
                      <<>>,
                      [kind |-> "data", hotels |-> HotelList(MaxPhase1, m), msg |-> ""]) :
        m \in {0, 1}}

PhaseTwoInit ==
    /\ today = <<2026, 12, 31>>
    /\ raw = None
    /\ state = Merge(AgentState("hotels in delhi", <<>>), [intent |-> Some(LongHotelIntent)])
    /\ pc = "hotel_tool"
    /\ visited = <<"hotel_tool">>
    /\ \E e \in PhaseTwoEntries :
        /\ calls = e.issued
        /\ cache = e.cache
        /\ frame = e.frame
        /\ answer = Answer("search_hotels_by_city", e.issued[1].arg, "data", MaxPhase1)
    /\ sessions = <<>>
    /\ requests = <<>>

PhaseTwoSpec == PhaseTwoInit /\ [][RunHotelOffer]_vars

-----------------------------------------------------------------------------
(* A query on a session that holds the results of an earlier turn: query_agent *)
(* up to agent.invoke, then the graph with the agent state it built.          *)

RetainedSession ==
    [Session(SessionId, "earlier") EXCEPT
        !.conversation_history = PriorTurns,
        !.last_intent = Some("flight_search"),
        !.last_flights = Some(<<FlightOffer("BOM", "DEL", "2026-12-31")>>)]

\* an agent state that starts from the session's last results
initial_state_Retained(request) ==
    [AgentState(request.query, request.session[1].conversation_history) EXCEPT
        !.flights = request.session[1].last_flights,
        !.hotels = request.session[1].last_hotels]

\* endpoints.py lines 39-42
initial_state(request) ==
    AgentState(request.query, request.session[1].conversation_history)

FollowUpInit ==
    /\ today \in Todays
    /\ raw = None
    /\ \E session \in {RetainedSession, Session(SessionId, "earlier")} :
        LET got == query_agent_receive(Put(<<>>, SessionId, session),
                                       "what about the second one",
                                       Some(SessionId), uuid4(1))
        IN  /\ sessions = got.sessions
            /\ requests = <<got.request>>
            /\ state = initial_state(got.request)
    /\ pc = "intent"
    /\ visited = <<>>
    /\ calls = <<>>
    /\ cache = <<>>
    /\ frame = None
    /\ answer = NoAnswer

\* the steps of a run that makes no search
FollowUpSpec == FollowUpInit /\ [][RunIntent \/ RunClarify \/ RunSynthesis]_vars

-----------------------------------------------------------------------------
(* Properties *)

Extraction == raw[1].data
Returned == state.intent[1]
ReturnedType == Returned["intent"][1]
Ran(node) == \E k \in 1..Len(visited) : visited[k] = node
HasResponse == state.response # None /\ state.response[1] # ""

RequiredFields(t) ==
    CASE t = "flight_search" -> {"origin", "destination", "check_in"}
      [] t = "hotel_search" -> {"destination", "check_in", "check_out"}
      [] t = "both" -> {"origin", "destination", "check_in", "check_out"}
      [] OTHER -> {}

\* C1: an intent returned by intent_node with type flight_search, hotel_search or
\* both has every field required for its type non-null, whatever the language
\* model returned.
C1_RequiredFieldsPresent ==
    raw # None =>
        \A k \in RequiredFields(ReturnedType) : Get(Returned, k) # None

C1_Witness ==
    /\ raw # None
    /\ pc = "flight_tool"
    /\ ReturnedType = "both"
    /\ \A k \in RequiredFields("both") : Get(Returned, k) # None

IsPrefix(a, b) == Len(a) <= Len(b) /\ \A k \in 1..Len(a) : a[k] = b[k]

\* C2: in a run whose validated intent is both, the stages run in the order
\* flight-search, hotel-search, synthesis when the flight step does not arm the
\* fallback, and the hotel-search stage never runs when it does.
C2_BothOrder ==
    (raw # None /\ ReturnedType = "both") =>
        IF state.use_web_search
        THEN ~Ran("hotel_tool") /\ pc # "hotel_tool"
        ELSE /\ IsPrefix(visited, <<"intent", "flight_tool", "hotel_tool", "synthesis">>)
             /\ pc = "END" =>
                  visited = <<"intent", "flight_tool", "hotel_tool", "synthesis">>

C2_Witness ==
    /\ raw # None
    /\ ReturnedType = "both"
    /\ ~state.use_web_search
    /\ pc = "END"
    /\ visited = <<"intent", "flight_tool", "hotel_tool", "synthesis">>

\* a node is ready to run, or one of the two looping nodes is ready for its next call
CanStep ==
    \/ pc \in {"intent", "flight_tool", "clarify", "synthesis"} /\ frame = None
    \/ /\ pc = "hotel_tool"
       /\ IF frame = None THEN TRUE ELSE frame[1].k \in 1..Len(frame[1].hotelIds)
    \/ /\ pc = "web_search_fallback"
       /\ IF frame = None THEN TRUE ELSE frame[1].k \in 1..(Len(searxng_instances) + 1)

\* C3: every run for which the extractor returned an intent reaches the end of
\* the graph with a non-empty response text: no node lets an exception escape,
\* a run that is not at the end can always take its next step, it takes at most
\* four nodes and a bounded number of external calls to get there, and at the
\* end the response is set and not empty.
C3_EndsWithResponse ==
    /\ pc # "RAISED"
    /\ pc # "END" => CanStep
    /\ Len(visited) <= 4
    /\ Len(calls) <= 4 + HotelIdLimit + 2 * ShownLimit + Len(searxng_instances)
    /\ pc = "END" => HasResponse

C3_Witness ==
    /\ pc = "END"
    /\ HasResponse
    /\ Ran("hotel_tool")
    /\ answer.kind = "Exception"

BackendsContacted == SelectSeq(calls, LAMBDA c : c.api = "GET")
OtherInstances(url) == {searxng_instances[k] : k \in 1..Len(searxng_instances)} \ {url}

\* C4: the response of the cascade is derived from the results of the first
\* backend, in list order, that answers 200 with at least one result: the
\* backends are contacted in list order; as long as the latest backend failed
\* there is no response and the cascade goes on; when it succeeded the cascade
\* ends there, and the response carries its results and those of no other backend.
C4_FirstSuccessWins ==
    /\ \A k \in 1..Len(BackendsContacted) :
          k <= Len(searxng_instances) /\ BackendsContacted[k].arg = searxng_instances[k]
    /\ answer.api = "GET" =>
          IF answer.kind = "ok" /\ answer.n >= 1
          THEN /\ pc = "END"
               /\ HasResponse
               /\ Contains(state.response[1], "Fares 1 at " \o answer.arg)
               /\ \A u \in OtherInstances(answer.arg) \cup {ddg_url} :
                     ~Contains(state.response[1], " at " \o u)
          ELSE /\ pc = "web_search_fallback"
               /\ state.response = None

C4_Witness ==
    /\ pc = "END"
    /\ answer = Answer("GET", searxng_instances[2], "ok", 1)
    /\ Len(BackendsContacted) = 2
    /\ Contains(state.response[1], "Fares 1 at " \o searxng_instances[2])

\* C5: the cascade never raises; it ends with a response text, which is the
\* static fallback message when the secondary backend has failed after every
\* primary backend did.
C5_CascadeNeverRaises ==
    /\ pc # "RAISED"
    /\ (pc = "END" /\ Ran("web_search_fallback")) => HasResponse
    /\ (pc = "END" /\ answer.api = "POST" /\ ~(answer.kind = "ok" /\ answer.n >= 1)) =>
          Contains(state.response[1], StaticNote)

C5_Witness ==
    /\ pc = "END"
    /\ answer.api = "POST"
    /\ answer.kind = "timeout"
    /\ Contains(state.response[1], StaticNote)
    /\ Contains(state.response[1], "- To: DEL")

OfferRequests == SelectSeq(calls, LAMBDA c : c.api = "search_hotel_offers")

\* C6: no per-hotel offer request is issued once the accumulated offer list
\* holds 5 offers.
C6_NoRequestAfterQuota ==
    \A k \in 1..Len(OfferRequests) : OfferRequests[k].n < OfferQuota

C6_Witness ==
    /\ pc = "synthesis"
    /\ state.hotels # None
    /\ Len(state.hotels[1]) >= OfferQuota
    /\ \E k \in 1..Len(calls) : calls[k].api = "search_hotels_by_city" /\ calls[k].n = 3
    /\ Len(OfferRequests) = 2

SameEnds ==
    /\ Extraction["intent"] = Some("flight_search")
    /\ Extraction["origin"] # None
    /\ Extraction["origin"] = Extraction["destination"]

GuardFires ==
    /\ Truthy(Extraction["check_in"])
    /\ \/ fromisoformat(Extraction["check_in"][1]) = ValueError
       \/ DateLT(fromisoformat(Extraction["check_in"][1]), today)

\* C7 as stated: a flight_search extraction with origin and destination present
\* and equal is returned as clarify with a reasoning that mentions
\* "arrival city/airport", whatever check_in is.
C7_Original ==
    (raw # None /\ SameEnds) =>
        /\ ReturnedType = "clarify"
        /\ Contains(Returned["reasoning"][1], "arrival city/airport")

\* C7 as amended: such an extraction is returned as clarify; its reasoning
\* mentions "arrival city/airport" unless check_in is a past or unparseable date,
\* in which case the reasoning is the date guard's message.
C7_SameEndsClarified ==
    (raw # None /\ SameEnds) =>
        /\ ReturnedType = "clarify"
        /\ IF GuardFires
           THEN Returned["reasoning"][1] \in {PastDateMsg, InvalidDateMsg}
           ELSE Contains(Returned["reasoning"][1], "arrival city/airport")

C7_Witness ==
    /\ raw # None
    /\ SameEnds
    /\ Extraction["origin"] = Some("BOM")
    /\ Extraction["check_in"] = Some("2027-01-01")
    /\ ReturnedType = "clarify"
    /\ Contains(Returned["reasoning"][1], "cannot be same as departure")

\* the calendar, for the dates the extractor is made to return
IsPastText(text, now) ==
    \/ text = "2026-12-30"
    \/ text = "2026-12-31" /\ now = <<2027, 1, 1>>

IsTodayText(text, now) ==
    \/ text = "2026-12-31" /\ now = <<2026, 12, 31>>
    \/ text = "2027-01-01" /\ now = <<2027, 1, 1>>

\* C8: an extraction of any type whose check_in is a date before today is
\* returned as clarify with the past-date reasoning; a check_in equal to today
\* is not downgraded by the guard.
C8_PastDateGuard ==
    (raw # None /\ Extraction["check_in"] # None) =>
        LET text == Extraction["check_in"][1]
        IN  /\ IsPastText(text, today) =>
                  /\ ReturnedType = "clarify"
                  /\ Returned["reasoning"] = Some(PastDateMsg)
            /\ IsTodayText(text, today) =>
                  /\ Returned["reasoning"][1] \notin {PastDateMsg, InvalidDateMsg}
                  /\ Extraction["intent"][1] \in {"follow_up", "clarify"} =>
                        Returned = Normalize(raw[1])

C8_Witness ==
    /\ raw # None
    /\ Extraction["intent"] = Some("follow_up")
    /\ Extraction["check_in"] = Some("2026-12-31")
    /\ today = <<2027, 1, 1>>
    /\ ReturnedType = "clarify"
    /\ Returned["reasoning"] = Some(PastDateMsg)

SwapCase ==
    /\ Extraction["intent"] = Some("hotel_search")
    /\ Truthy(Extraction["origin"])
    /\ ~Truthy(Extraction["destination"])

\* C9: a hotel_search extraction with origin set and destination unset is
\* returned with destination equal to the extracted origin and origin null, and
\* is not reported as missing "destination city".
C9_HotelSwap ==
    (raw # None /\ SwapCase) =>
        /\ Returned["destination"] = Extraction["origin"]
        /\ Returned["origin"] = None
        /\ ~Contains(Returned["reasoning"][1], "destination city")

C9_Witness ==
    /\ raw # None
    /\ SwapCase
    /\ pc = "hotel_tool"
    /\ ReturnedType = "hotel_search"
    /\ Returned["destination"] = Some("BOM")
    /\ Returned["origin"] = None

Stage1Table(s) ==
    IF s.intent = None THEN "clarify"
    ELSE CASE s.intent[1]["intent"] = Some("flight_search") -> "flight_tool"
           [] s.intent[1]["intent"] = Some("hotel_search") -> "hotel_tool"
           [] s.intent[1]["intent"] = Some("both") -> "flight_tool"
           [] s.intent[1]["intent"] = Some("follow_up") -> "synthesis"
           [] OTHER -> "clarify"

\* C10: stage-1 routing depends on the intent type alone: flight_search and both
\* go to the flight step, hotel_search to the hotel step, follow_up to synthesis,
\* every other value and a null intent to clarify.
C10_Stage1Routing == visited = <<"router">> => pc = Stage1Table(state)

C10_Witness ==
    /\ visited = <<"router">>
    /\ state.intent = None
    /\ pc = "clarify"

Stage2Table(s) ==
    IF s.use_web_search THEN "web_search_fallback"
    ELSE IF s.intent # None /\ s.intent[1]["intent"] = Some("both") THEN "hotel_tool"
    ELSE "synthesis"

\* C11: after the flight step an armed fallback flag routes to the fallback
\* cascade for every intent type; with the flag not armed the next step is the
\* hotel step for both and synthesis for everything else.
C11_Stage2Routing == visited = <<"flight_tool_router">> => pc = Stage2Table(state)

C11_Witness ==
    /\ visited = <<"flight_tool_router">>
    /\ state.use_web_search
    /\ state.intent # None
    /\ state.intent[1]["intent"] = Some("both")
    /\ pc = "web_search_fallback"

FlightHardError ==
    /\ Ran("flight_tool")
    /\ ~Ran("hotel_tool")
    /\ answer.api = "search_flights"
    /\ answer.kind = "ResponseError"
    /\ ~state.use_web_search

HotelHardError ==
    /\ Ran("hotel_tool")
    /\ answer.api = "search_hotels_by_city"
    /\ answer.kind = "ResponseError"

\* C12: a run in which the flight provider failed with an error that is no
\* outage ends with the flight step's "Flight search error: ..." message as its
\* response, and a run in which the hotel step failed ends with the hotel step's
\* "Hotel search error: ..." message.
C12_HardErrorSurfaced ==
    pc = "END" =>
        /\ FlightHardError =>
              /\ HasResponse
              /\ Prefix(state.response[1], Len("Flight search error: "))
                    = "Flight search error: "
        /\ HotelHardError =>
              /\ HasResponse
              /\ Prefix(state.response[1], Len("Hotel search error: "))
                    = "Hotel search error: "

\* the flight step has left its error message in the state and synthesis is next
C12_Witness ==
    /\ pc = "synthesis"
    /\ FlightHardError
    /\ ReturnedType = "flight_search"
    /\ state.response = Some("Flight search error: [400]")

\* C13: the response field is set exactly once, by the terminal stage: it is
\* unset as long as the run has not ended and set when it has.
C13_ResponseSetOnce ==
    /\ pc # "END" => state.response = None
    /\ pc = "END" => state.response # None

\* a stage before the terminal one has set the response
C13_Witness ==
    /\ pc = "synthesis"
    /\ visited = <<"intent", "hotel_tool">>
    /\ state.response # None

\* C14: once a stage has set intent, flights, hotels, use_web_search or
\* search_query no later stage changes it: every stage after the extractor
\* leaves intent as it is, the hotel and synthesis stages leave flights as they
\* are, and synthesis leaves hotels as they are.
C14_FieldsKept ==
    [][/\ state.intent # None => state'.intent = state.intent
       /\ state.flights # None => state'.flights = state.flights
       /\ state.hotels # None => state'.hotels = state.hotels
       /\ state.use_web_search => state'.use_web_search
       /\ state.search_query # None => state'.search_query = state.search_query
       /\ pc # "intent" => state'.intent = state.intent
       /\ pc \in {"hotel_tool", "synthesis"} => state'.flights = state.flights
       /\ pc = "synthesis" => state'.hotels = state.hotels]_vars

C14_Witness ==
    /\ pc = "END"
    /\ visited = <<"intent", "flight_tool", "hotel_tool", "synthesis">>
    /\ state.intent = intent_node(raw[1], today).intent
    /\ state.flights # None
    /\ Len(state.flights[1]) = 1
    /\ state.hotels # None
    /\ Len(state.hotels[1]) >= 1

\* the provider errors that report at least one error entry
ReportedErrors == {out \in FlightOutcomes : out.kind = "ResponseError" /\ out.result.form = "errors"}

\* the first reported error has the system-unavailable code or a 5xx status
IsOutage(result) ==
    result.code = SystemUnavailable \/ result.status \in 500..599

\* the flight step is about to search: the intent passes its precondition checks
ReadyToSearch ==
    /\ pc = "flight_tool"
    /\ state.intent # None
    /\ Truthy(Get(state.intent[1], "origin"))
    /\ Truthy(Get(state.intent[1], "destination"))
    /\ Truthy(Get(state.intent[1], "check_in"))
    /\ "travelers" \in DOMAIN state.intent[1]

\* C15: for every provider error whose first reported error has code 141 or a
\* 500-class status the flight step returns flights empty, the flag armed and the
\* query "flights from {origin_city} to {dest_city} on {date} price"; for every
\* other provider error it returns an error message with the flag not armed, and
\* has called the provider once.
C15_OutageArmsFallback ==
    ReadyToSearch =>
        \A out \in ReportedErrors, lo \in Lookups, ld \in Lookups :
            LET i == state.intent[1]
                r == flight_tool(state, cache, out, lo, ld)
                o == get_city_name(cache, i["origin"][1], lo)
                d == get_city_name(o.cache, i["destination"][1], ld)
                searches == SelectSeq(r.issued, LAMBDA c : c.api = "search_flights")
            IN  /\ r.update.flights = Some(<<>>)
                /\ Len(searches) = 1
                /\ IF IsOutage(out.result)
                   THEN /\ "use_web_search" \in DOMAIN r.update
                        /\ r.update.use_web_search
                        /\ r.update.search_query =
                              Some("flights from " \o o.city \o " to " \o d.city
                                   \o " on " \o LongDate(i["check_in"][1]) \o " price")
                   ELSE /\ "use_web_search" \notin DOMAIN r.update
                        /\ Prefix(r.update.response[1], Len("Flight search error: "))
                              = "Flight search error: "

\* a provider error with status 503 has been answered with an error message
C15_Witness ==
    /\ visited = <<"intent", "flight_tool">>
    /\ pc = "synthesis"
    /\ ~state.use_web_search
    /\ state.response = Some("Flight search error: [503]")

\* C16: the flight step lets no exception escape: for every provider error,
\* whatever its payload, and for every other exception, flight_tool returns a
\* result with flights empty and either an error response or the armed fallback.
C16_FlightNeverRaises ==
    /\ pc # "RAISED"
    /\ (pc = "flight_tool" /\ state.intent # None) =>
          \A out \in FlightOutcomes, lo \in Lookups, ld \in Lookups :
              (out.kind # "data" \/ "travelers" \notin DOMAIN state.intent[1]) =>
                  LET r == flight_tool(state, cache, out, lo, ld)
                      armed == /\ "use_web_search" \in DOMAIN r.update
                               /\ r.update.use_web_search
                  IN  /\ ~r.raised
                      /\ r.update.flights = Some(<<>>)
                      /\ IF armed
                         THEN r.update.search_query # None
                         ELSE /\ r.update.response # None
                              /\ r.update.response[1] # ""

C16_Witness ==
    /\ visited = <<"intent", "flight_tool">>
    /\ answer.api = "search_flights"
    /\ answer.kind = "Exception"
    /\ state.flights = Some(<<>>)
    /\ state.response = Some("Unexpected flight error: connection reset")

\* the missing items of the required-field table, fields first in the table's
\* order, then the equality violation
TableMissing(d) ==
    CASE Get(d, "intent") = Some("flight_search") ->
            Item(~Truthy(Get(d, "origin")), "departure city/airport")
            \o Item(~Truthy(Get(d, "destination")), "arrival city/airport")
            \o Item(~Truthy(Get(d, "check_in")), "departure/travel date")
            \o Item(/\ Truthy(Get(d, "origin"))
                    /\ Get(d, "origin") = Get(d, "destination"),
                    "arrival city/airport (cannot be same as departure)")
      [] Get(d, "intent") = Some("hotel_search") ->
            Item(~Truthy(Get(d, "destination")), "destination city")
            \o Item(~Truthy(Get(d, "check_in")), "check-in date")
            \o Item(~Truthy(Get(d, "check_out")), "check-out date")
      [] Get(d, "intent") = Some("both") ->
            Item(~Truthy(Get(d, "origin")), "departure city/airport")
            \o Item(~Truthy(Get(d, "destination")), "destination city")
            \o Item(~Truthy(Get(d, "check_in")), "check-in/departure date")
            \o Item(~Truthy(Get(d, "check_out")), "check-out date")
      [] OTHER -> <<>>

\* C17: a flight_search, hotel_search or both extraction with a required field
\* absent or with origin equal to destination is returned as clarify with
\* reasoning "Missing: " followed by every missing item, comma-joined, missing
\* fields first in the table's order and the equality violation last.  Stated
\* for the extractions the date guard lets through.
C17_MissingListed ==
    (raw # None /\ ~GuardFires) =>
        LET expected == TableMissing(HotelSwap(Extraction))
        IN  expected # <<>> =>
                /\ ReturnedType = "clarify"
                /\ Returned["reasoning"] = Some("Missing: " \o Join(expected, ", "))

\* same origin and destination and no date: two items, the equality one first
C17_Witness ==
    /\ raw # None
    /\ SameEnds
    /\ ~Truthy(Extraction["check_in"])
    /\ ReturnedType = "clarify"
    /\ Returned["reasoning"] = Some("Missing: arrival city/airport (cannot be same as departure), departure/travel date")

\* C18: a returned intent that is an actionable search using both ends
\* (flight_search or both) never has origin equal to destination when both are
\* present.
C18_EndsDiffer ==
    (/\ raw # None
     /\ ReturnedType \in {"flight_search", "both"}
     /\ Truthy(Get(Returned, "origin"))
     /\ Truthy(Get(Returned, "destination"))) =>
        Get(Returned, "origin") # Get(Returned, "destination")

\* a both intent with equal ends has left the validator and the flight step is next
C18_Witness ==
    /\ raw # None
    /\ pc = "flight_tool"
    /\ ReturnedType = "both"
    /\ Get(Returned, "origin") = Some("BOM")
    /\ Get(Returned, "destination") = Some("BOM")

\* a complete valid extraction: an actionable type, its required fields present,
\* origin different from destination, check_in a date not before today
CompleteValid ==
    /\ Extraction["intent"] # None
    /\ Extraction["intent"][1] \in {"flight_search", "hotel_search", "both"}
    /\ \A k \in RequiredFields(Extraction["intent"][1]) : Truthy(Get(Extraction, k))
    /\ ~(Truthy(Get(Extraction, "origin"))
         /\ Get(Extraction, "origin") = Get(Extraction, "destination"))
    /\ Truthy(Get(Extraction, "check_in"))
    /\ fromisoformat(Extraction["check_in"][1]) # ValueError
    /\ ~DateLT(fromisoformat(Extraction["check_in"][1]), today)

\* C19: intent_node returns a complete valid extraction with the same type and
\* the same field values.
C19_ValidUnchanged ==
    (raw # None /\ CompleteValid) =>
        /\ DOMAIN Returned = DOMAIN Extraction
        /\ \A k \in DOMAIN Extraction : Returned[k] = Extraction[k]

C19_Witness ==
    /\ raw # None
    /\ CompleteValid
    /\ pc = "hotel_tool"
    /\ Extraction["origin"] = Some("DEL")
    /\ Extraction["check_in"] = Some("2027-01-01")
    /\ today = <<2027, 1, 1>>
    /\ Returned = Extraction

\* request r has completed on the session with this id
DoneOn(r, session_id) ==
    /\ requests[r].at = "done"
    /\ requests[r].session[1].session_id = session_id

HasTurn(history, turn) == \E k \in 1..Len(history) : history[k] = turn

\* C20: when two queries for the same session id have both completed, the
\* stored history of the session holds the user turn and the assistant turn of
\* each, and the history stored before them is a prefix of it.
C20_HistoryAppendOnly ==
    \A a \in Requests, b \in Requests :
        (a # b /\ DoneOn(a, SessionId) /\ DoneOn(b, SessionId)) =>
            LET stored == sessions[SessionId].conversation_history
            IN  /\ \A r \in {a, b} :
                      /\ HasTurn(stored, Turn("user", requests[r].query))
                      /\ HasTurn(stored, Turn("assistant",
                                              requests[r].result[1].response[1]))
                /\ sessions[SessionId].created_at = "earlier" =>
                      IsPrefix(PriorTurns, stored)

\* both queries ran on the stored history of before, and the second to finish
\* has replaced what the first had stored
C20_Witness ==
    /\ DoneOn(1, SessionId)
    /\ DoneOn(2, SessionId)
    /\ sessions[SessionId].conversation_history =
          PriorTurns \o <<Turn("user", "find flights to goa #2"),
                          Turn("assistant", "Answer #2")>>

-----------------------------------------------------------------------------
(* Claims C21 - C30 *)

\* a request body that the endpoint must refuse
InvalidRequest(query, session_id) ==
    \/ query = ""
    \/ Len(query) > MaxQueryLen
    \/ query \in {"<SCRIPT>alert(1)</script>", "x' OR '1'='1"}
    \/ session_id = Some("not-a-uuid")

\* C21: in every reachable state with a request still to come, receiving a
\* request whose query is empty,
\* longer than 1000 characters or matches a disallowed pattern, or whose session
\* id is not a UUID, rejects it: the request holds no session and never reaches
\* the agent, and the session store is what it was.  The step that rejects a
\* request changes neither the store nor the pipeline, and a rejected request
\* stays rejected.
C21_InvalidRejected ==
    /\ [](\A r \in Requests : \A query \in Queries(r), session_id \in SessionIds :
            requests[r].at = "idle" /\ InvalidRequest(query, session_id)
            => LET got == query_agent_receive(sessions, query, session_id, uuid4(r))
               IN  /\ got.request.at = "rejected"
                   /\ got.request.session = None
                   /\ got.sessions = sessions)
    /\ [][\A r \in Requests :
            /\ (requests[r].at = "idle" /\ requests'[r].at = "rejected")
               => sessions' = sessions /\ pipeline' = pipeline
            /\ requests[r].at = "rejected" => requests'[r] = requests[r]]_vars

C21_Witness ==
    \E r \in Requests :
        /\ requests[r].at = "rejected"
        /\ sessions = <<>>
        /\ \E q \in Requests : requests[q].at = "idle"

\* the per-hotel offer requests issued for hotel_id
RequestsFor(hotel_id) == SelectSeq(OfferRequests, LAMBDA c : c.arg = hotel_id)

\* the hotel step is no longer working on hotel_id
MovedPast(hotel_id) ==
    IF pc = "hotel_tool" /\ frame # None
    THEN frame[1].hotelIds[frame[1].k] # hotel_id
    ELSE TRUE

\* C22: a hotel whose offer request was answered with a rate-limit error is
\* requested again after the backoff: once the hotel step has moved past such a
\* hotel, that hotel has been requested more than once.
C22_RateLimitRetried ==
    \A p \in 1..Len(calls) :
        (calls[p].api = "sleep" /\ MovedPast(calls[p].arg))
        => Len(RequestsFor(calls[p].arg)) >= 2

C22_Witness ==
    /\ pc = "synthesis"
    /\ \E p \in 1..Len(calls) :
        /\ calls[p].api = "sleep"
        /\ calls[p].arg = "H1"
        /\ Len(RequestsFor("H1")) = 1
        /\ Len(RequestsFor("H2")) = 1

\* C23: in every reachable state in which phase 2 is about to request a hotel
\* id, a provider error on that request, 429 or other, does not abort the loop
\* and discards nothing: when ids remain the loop goes on to the next id with
\* the accumulated offers as they were, and when the id was the last one the
\* step returns the accumulated offers (or, with none, the basic hotels) and no
\* error text.  The backoff sleep is issued exactly when the error is a 429.
C23_HotelErrorsIsolated ==
    (pc = "hotel_tool" /\ frame # None /\ "travelers" \in DOMAIN state.intent[1]) =>
        LET f == frame[1]
            hotel_id == f.hotelIds[f.k]
            requested == Call("search_hotel_offers", hotel_id, Len(f.valid_offers))
        IN  \A out \in OfferOutcomes(hotel_id, state.intent[1]) :
                out.kind = "ResponseError" =>
                    LET r == hotel_tool_offer(state, cache, f, out)
                    IN  /\ ~r.raised
                        /\ r.issued = IF Contains(out.msg, "429")
                                      THEN <<requested, Call("sleep", hotel_id, 0)>>
                                      ELSE <<requested>>
                        /\ IF f.k < Len(f.hotelIds)
                           THEN /\ r.update = <<>>
                                /\ r.frame = Some([f EXCEPT !.k = f.k + 1])
                           ELSE /\ r.frame = None
                                /\ r.update =
                                     HotelReturn(state.intent[1], f.hotels_data,
                                                 f.valid_offers)
                                /\ f.valid_offers # <<>> =>
                                     r.update = [hotels |-> Some(f.valid_offers)]
                                /\ f.valid_offers = <<>> =>
                                     Prefix(r.update.response[1], 6) = "Found "

\* offers of H1 are kept across a 429 on H2 and another error on H3
C23_Witness ==
    /\ pc = "synthesis"
    /\ answer = Answer("search_hotel_offers", "H3", "ResponseError", 0)
    /\ \E p \in 1..Len(calls) : calls[p] = Call("sleep", "H2", 0)
    /\ Len(RequestsFor("H3")) = 1
    /\ state.hotels # None
    /\ Len(state.hotels[1]) = 1
    /\ state.hotels[1][1].hotel.hotelId = Some("H1")
    /\ state.response = None

\* the longest phase-1 list for which the basic-hotel return is examined
MaxListed == 7

Min(a, b) == IF a < b THEN a ELSE b

\* the basic entries of the first 5 (or fewer) hotels of a phase-1 list, in order
FirstFiveBasic(hotels_data) ==
    [k \in 1..Min(Len(hotels_data), 5) |->
        [hotel |-> hotels_data[k], available |-> FALSE, offers |-> <<>>]]

\* C24: in every reachable state in which phase 2 requests its last hotel id with
\* no offer accumulated, an answer without offers (no data, or a provider error)
\* makes the hotel step return the first 5 or fewer phase-1 hotels in their
\* order, each as a basic entry with available false and no offers, together
\* with the explanatory response; the code after the loop does the same for
\* every phase-1 list of up to MaxListed hotels, so a longer list is cut to its
\* first 5.
C24_BasicHotelsReturned ==
    (pc = "hotel_tool" /\ frame # None /\ "travelers" \in DOMAIN state.intent[1]) =>
        LET f == frame[1]
            i == state.intent[1]
            Explained(update, n) ==
                update.response =
                    Some("Found " \o Str(n) \o " hotels in " \o i["destination"][1]
                         \o ", but no pricing/availability for your dates."
                         \o " Here are the hotels:")
        IN  /\ (f.k = Len(f.hotelIds) /\ f.valid_offers = <<>>) =>
                \A out \in OfferOutcomes(f.hotelIds[f.k], i) :
                    (out.kind = "ResponseError" \/ (out.kind = "data" /\ out.offers = <<>>))
                    => LET r == hotel_tool_offer(state, cache, f, out)
                       IN  /\ r.frame = None
                           /\ r.update.hotels = Some(FirstFiveBasic(f.hotels_data))
                           /\ Explained(r.update, Len(f.hotels_data))
            /\ \A n \in 1..MaxListed, m \in {0, 1} :
                LET update == HotelReturn(i, HotelList(n, m), <<>>)
                IN  /\ update.hotels = Some(FirstFiveBasic(HotelList(n, m)))
                    /\ Len(update.hotels[1]) = Min(n, 5)
                    /\ Explained(update, Min(n, 5))

\* three phase-1 hotels, the first without an id, and no offer for the other two
C24_Witness ==
    /\ pc = "synthesis"
    /\ Len(OfferRequests) = 2
    /\ state.hotels = Some(FirstFiveBasic(HotelList(3, 1)))
    /\ state.response # None
    /\ Prefix(state.response[1], 15) = "Found 3 hotels "

\* the rupee amount the claim states for a price in a currency ("" is no currency)
StatedInr(currency, amount) ==
    CASE currency = "USD" -> amount * 83
      [] currency = "GBP" -> amount * 125
      [] currency \in {"EUR", ""} -> (amount * 10719) \div 100
      [] OTHER -> amount

CurrencyOf(offer) == IF "currency" \in DOMAIN offer THEN offer.currency ELSE ""

\* C25: in the text the synthesizer returns, the price of every shown hotel is
\* its total (and base) converted at the rate of its own currency: 83 for USD,
\* 125 for GBP, 107.19 for EUR or for an offer without a currency, and no
\* conversion for any other currency; the price of a shown flight is its total
\* at the EUR rate whatever currency the flight carries.
C25_RateByCurrency ==
    pc = "END" =>
        /\ state.hotels # None =>
            \A k \in 1..Len(state.hotels[1]) :
                LET offer == state.hotels[1][k].offers[1]
                IN  Contains(state.response[1],
                             "Price: INR " \o Str(StatedInr(CurrencyOf(offer), offer.total))
                             \o " total (Base: INR "
                             \o Str(StatedInr(CurrencyOf(offer), offer.base)) \o ")")
        /\ state.flights # None =>
            \A k \in 1..Len(state.flights[1]) :
                Contains(state.response[1],
                         " | INR " \o Str(StatedInr("EUR", state.flights[1][k].total)))

\* a dollar flight, a dollar hotel and a hotel without a currency, rendered
C25_Witness ==
    /\ pc = "END"
    /\ state.flights # None
    /\ state.flights[1][1].currency = "USD"
    /\ state.hotels # None
    /\ Len(state.hotels[1]) = 2
    /\ CurrencyOf(state.hotels[1][1].offers[1]) = "USD"
    /\ CurrencyOf(state.hotels[1][2].offers[1]) = ""
    /\ Contains(state.response[1], "Price: INR 8300 total")
    /\ Contains(state.response[1], "Price: INR 10719 total")

\* the TravelIntent object that carries the values of an extraction, with the
\* default of every field the extraction leaves out
AsModel(r) ==
    [shape |-> "model",
     data |-> [k \in Keys |-> IF k \in DOMAIN r.data THEN r.data[k] ELSE Some(1)]]

\* C26: the intent returned by intent_node has the seven fields intent, origin,
\* destination, check_in, check_out, travelers and reasoning whether the
\* extraction was an object or a mapping, and it equals the intent returned for
\* the object that carries the same values.
C26_ShapeIndependent ==
    raw # None =>
        /\ DOMAIN Returned = Keys
        /\ Returned = PostProcess(AsModel(raw[1]), today)

C26_Witness ==
    /\ raw # None
    /\ raw[1].shape = "dict"
    /\ DOMAIN Returned = Keys \ {"travelers"}
    /\ ReturnedType = "hotel_search"
    /\ pc = "hotel_tool"

\* what the two shapes do share: the fields of the mapping, with equal values
CommonFieldsAgree ==
    raw # None =>
        \A k \in DOMAIN Returned : Returned[k] = PostProcess(AsModel(raw[1]), today)[k]

\* a field that is null or empty
Absent(i, k) == Get(i, k) = None \/ Get(i, k) = Some("")

ProviderSearches ==
    SelectSeq(calls, LAMBDA c : c.api \in {"search_flights", "search_hotels_by_city",
                                           "search_hotel_offers"})

\* C27: a search step handed an intent that lacks one of its required fields
\* returns an explicit missing-field message with an empty result list and
\* issues no call: the flight step for origin, destination and check_in, the
\* hotel step for destination, check_in and check_out, whatever the provider
\* would have answered.  No provider search call is ever logged for an intent
\* that lacks a field of that search.
C27_NoSearchWithMissingField ==
    LET i == state.intent[1]
    IN  /\ pc = "flight_tool" =>
            \A out \in FlightOutcomes, lo \in Lookups, ld \in Lookups :
                (\E k \in {"origin", "destination", "check_in"} : Absent(i, k))
                => LET r == flight_tool(state, cache, out, lo, ld)
                   IN  /\ r.issued = <<>>
                       /\ ~r.raised
                       /\ r.update.flights = Some(<<>>)
                       /\ r.update.response =
                            Some(IF Absent(i, "origin") THEN "Missing origin airport code"
                                 ELSE IF Absent(i, "destination")
                                 THEN "Missing destination airport code"
                                 ELSE "Missing departure date")
        /\ (pc = "hotel_tool" /\ frame = None) =>
            \A out \in CityOutcomes :
                (\E k \in {"destination", "check_in", "check_out"} : Absent(i, k))
                => LET r == hotel_tool_begin(state, cache, out)
                   IN  /\ r.issued = <<>>
                       /\ r.frame = None
                       /\ r.update.hotels = Some(<<>>)
                       /\ r.update.response =
                            Some(IF Absent(i, "destination")
                                 THEN "Missing destination city for hotel search"
                                 ELSE "Missing check-in or check-out dates for hotel search")
        /\ \A p \in 1..Len(ProviderSearches) :
            \A k \in (IF ProviderSearches[p].api = "search_flights"
                      THEN {"origin", "destination", "check_in"}
                      ELSE {"destination", "check_in", "check_out"}) : ~Absent(i, k)

\* the flight step found no flights for a complete origin, destination and date,
\* and the hotel step that follows refused the search for lack of a check-out
C27_Witness ==
    /\ pc = "synthesis"
    /\ visited = <<"flight_tool", "hotel_tool">>
    /\ Absent(state.intent[1], "check_out")
    /\ Len(ProviderSearches) = 1
    /\ state.hotels = Some(<<>>)
    /\ state.response = Some("Missing check-in or check-out dates for hotel search")

\* the backend requests of the run, and the backends in the order of the cascade
Contacts == SelectSeq(calls, LAMBDA c : c.api \in {"GET", "POST"})
Backends == searxng_instances \o <<ddg_url>>

\* the latest backend answered something the cascade cannot use
LatestFailed == ~(answer.kind = "ok" /\ answer.n >= 1)

IsStatic(text) == Prefix(text, Len(StaticNote) + 1) = "\n" \o StaticNote

\* C28: the p-th backend request of a run goes to the p-th backend of the
\* cascade, the primary instances in list order and the HTML backend after the
\* last of them, so no backend is contacted twice and the HTML backend is
\* contacted only after every primary instance; a step contacts a backend only
\* when the backend before it has just failed; and the static message is the
\* response only when all backends were contacted and the HTML backend failed.
C28_CascadeOrder ==
    /\ [](/\ Len(Contacts) <= Len(Backends)
          /\ \A p \in 1..Len(Contacts) :
                /\ Contacts[p].arg = Backends[p]
                /\ Contacts[p].api = (IF p <= Len(searxng_instances) THEN "GET" ELSE "POST")
          /\ (state.response # None /\ IsStatic(state.response[1]))
             => /\ Len(Contacts) = Len(Backends)
                /\ answer.api = "POST"
                /\ LatestFailed)
    /\ [][(Len(Contacts) >= 1 /\ Len(Contacts)' = Len(Contacts) + 1)
          => /\ answer.arg = Backends[Len(Contacts)]
             /\ LatestFailed]_vars

\* all four primary instances and the HTML backend failed in turn
C28_Witness ==
    /\ pc = "END"
    /\ Len(Contacts) = Len(Backends)
    /\ answer.api = "POST"
    /\ answer.kind = "timeout"
    /\ state.response # None
    /\ IsStatic(state.response[1])

UnableMsg == "Unable to search for flights at this time."

\* C29: whenever the cascade stage is about to run or has run, the fallback
\* flag is armed, the flight list is empty and the search query is not empty;
\* so on entry, whatever the first backend answers, the stage contacts that
\* backend instead of returning an empty update or the "Unable to search"
\* answer, and the response at the end of such a run is neither empty nor that
\* answer.
C29_CascadeArmed ==
    (pc = "web_search_fallback" \/ Ran("web_search_fallback")) =>
        /\ state.use_web_search
        /\ state.flights = Some(<<>>)
        /\ state.search_query # None
        /\ state.search_query[1] # ""
        /\ (pc = "web_search_fallback" /\ frame = None) =>
              \A out \in PrimaryOutcomes :
                  LET r == web_search_primary(state, cache, None, out)
                  IN  /\ r.issued # <<>>
                      /\ (r.update # <<>> \/ r.frame # None)
                      /\ "response" \in DOMAIN r.update => r.update.response # Some(UnableMsg)
        /\ pc = "END" => (HasResponse /\ state.response[1] # UnableMsg)

\* the cascade is entered for an outage of the flight provider
C29_Witness ==
    /\ pc = "web_search_fallback"
    /\ frame = None
    /\ ~Ran("web_search_fallback")
    /\ state.search_query = Some("flights from BOM to Delhi on December 31, 2026 price")
    /\ answer.api = "search_flights"

\* no run is left waiting for a backend: after a backend that never answered the
\* cascade stands before the next backend, or has ended with a response
NeverBlocked ==
    /\ pc # "BLOCKED"
    /\ (answer.api \in {"GET", "POST"} /\ answer.kind = "hang") =>
          IF answer.api = "GET"
          THEN /\ pc = "web_search_fallback"
               /\ frame = Some([k |-> Len(Contacts) + 1])
               /\ Backends[Len(Contacts)] = answer.arg
               /\ CanStep
          ELSE /\ pc = "END"
               /\ HasResponse
    /\ (pc = "web_search_fallback" /\ frame # None) =>
          /\ frame[1].k = Len(Contacts) + 1
          /\ frame[1].k <= Len(Backends)
          /\ CanStep

\* C30: a backend that never answers does not block the cascade: no run is left
\* waiting for a backend, and after a backend that never answered the cascade
\* stands before the next backend of the list; the step a cascade under way
\* takes is the request to the backend it stands before; and every cascade
\* under way eventually ends with a non-empty response, so the next backend is
\* eventually tried and a response eventually returned.
C30_HungBackendSkipped ==
    /\ []NeverBlocked
    /\ [][(pc = "web_search_fallback" /\ frame # None)
           => /\ Len(Contacts)' = Len(Contacts) + 1
              /\ answer'.arg = Backends[frame[1].k]]_vars
    /\ (pc = "web_search_fallback") ~> (pc = "END" /\ HasResponse)

\* the second primary instance never answered and the third is about to be tried
C30_Witness ==
    /\ pc = "web_search_fallback"
    /\ answer = Answer("GET", searxng_instances[2], "hang", 0)
    /\ frame = Some([k |-> 3])
    /\ Len(Contacts) = 2

\* the HTML backend never answered and the run ended with the static message
HungLastBackend ==
    /\ pc = "END"
    /\ answer.api = "POST"
    /\ answer.kind = "hang"
    /\ IsStatic(state.response[1])

-----------------------------------------------------------------------------
(* Claims C31 - C40 *)

\* position of a node in the run, 0 when it has not run
PositionOf(node) ==
    IF Ran(node) THEN CHOOSE k \in 1..Len(visited) : visited[k] = node ELSE 0

\* C31: when the flight step has run for an intent `both` and the fallback is
\* not armed, whatever the flight step returned (flights, no flights, a
\* provider error that is no outage, a missing-field error), the hotel step is
\* the next step of the run or has already run right after the flight step.
C31_HotelAfterFlight ==
    (/\ state.intent # None
     /\ Get(state.intent[1], "intent") = Some("both")
     /\ Ran("flight_tool")
     /\ ~state.use_web_search)
    => /\ pc # "RAISED"
       /\ IF Ran("hotel_tool")
          THEN PositionOf("hotel_tool") = PositionOf("flight_tool") + 1
          ELSE pc = "hotel_tool" /\ frame = None
                 /\ visited[Len(visited)] = "flight_tool"

\* the flight step refused the search for lack of an origin; the hotel step is next
C31_Witness ==
    /\ pc = "hotel_tool"
    /\ frame = None
    /\ visited = <<"flight_tool">>
    /\ Get(state.intent[1], "intent") = Some("both")
    /\ state.response = Some("Missing origin airport code")
    /\ ~state.use_web_search

\* the flight provider answered with an error that is no outage; the hotel step ran
HotelAfterHardError ==
    /\ Ran("hotel_tool")
    /\ Get(state.intent[1], "intent") = Some("both")
    /\ \E k \in 1..Len(calls) : calls[k].api = "search_flights"
    /\ state.flights = Some(<<>>)
    /\ ~state.use_web_search

\* C32: in every run whose returned intent is `clarify`, the only external call
\* is the extraction itself (no flight, hotel or city provider call and no
\* backend request), the clarify step is the one step after the extractor, the
\* run ends right after it, and the response then contains the intent's
\* reasoning text.
C32_ClarifyTerminal ==
    (raw # None /\ ReturnedType = "clarify") =>
        /\ calls = <<Call("structured.invoke", state.query, 0)>>
        /\ \/ pc = "clarify" /\ visited = <<"intent">>
           \/ /\ pc = "END"
              /\ visited = <<"intent", "clarify">>
              /\ HasResponse
              /\ Truthy(Get(Returned, "reasoning"))
              /\ Contains(state.response[1], "**" \o Returned["reasoning"][1] \o "**")

\* a hotel search without a check-out date ended in the clarify step
C32_Witness ==
    /\ pc = "END"
    /\ visited = <<"intent", "clarify">>
    /\ raw # None
    /\ raw[1].data["intent"] = Some("hotel_search")
    /\ ReturnedType = "clarify"
    /\ Contains(state.response[1], "**Missing: check-out date**")

\* the extracted check_in is a string that datetime.fromisoformat rejects
Unparseable(v) == v # None /\ fromisoformat(v[1]) = ValueError

\* C33: for every extracted intent of any type whose check_in is a non-empty
\* string that does not parse as an ISO date, intent_node returns a `clarify`
\* intent with the "Invalid date format" reasoning and raises nothing. (An empty
\* check_in never reaches the parser: see C33_Original.)
C33_InvalidDateClarified ==
    (/\ raw # None
     /\ Truthy(Get(raw[1].data, "check_in"))
     /\ Unparseable(raw[1].data["check_in"]))
    => /\ pc # "RAISED"
       /\ state.intent # None
       /\ ReturnedType = "clarify"
       /\ Returned["reasoning"] = Some(InvalidDateMsg)

\* a follow_up extraction with check_in "next friday" came back as clarify
C33_Witness ==
    /\ raw # None
    /\ raw[1].data["intent"] = Some("follow_up")
    /\ raw[1].data["check_in"] = Some("next friday")
    /\ ReturnedType = "clarify"
    /\ Returned["reasoning"] = Some(InvalidDateMsg)
    /\ pc = "clarify"

\* C33 as stated, for every check_in that is present (not null), the empty
\* string included
C33_Original ==
    (/\ raw # None
     /\ Unparseable(Get(raw[1].data, "check_in")))
    => /\ pc # "RAISED"
       /\ state.intent # None
       /\ ReturnedType = "clarify"
       /\ Returned["reasoning"] = Some(InvalidDateMsg)

\* a follow_up extraction with an empty check_in is returned as follow_up
EmptyDateKept ==
    /\ raw # None
    /\ raw[1].data["intent"] = Some("follow_up")
    /\ raw[1].data["check_in"] = Some("")
    /\ state.intent # None
    /\ ReturnedType = "follow_up"

\* the history handed to the agent by a request that is at agent.invoke
HistoryAtInvoke(r) == requests[r].session[1].conversation_history

\* C34: whatever the length of the conversation history handed to the agent, the
\* extractor's prompt context is built from its last 4 turns at most, in their
\* original order, and no line of an earlier turn occurs in it.
C34_ContextWindow ==
    \A r \in Requests :
        requests[r].at = "invoke" =>
            LET h == HistoryAtInvoke(r)
                n == Len(h)
                shown == LastMessages(h)
            IN  /\ Len(shown) = Min(n, 4)
                /\ \A k \in 1..Len(shown) : shown[k] = h[n - Len(shown) + k]
                /\ Context(h) = "\n\nPrevious conversation:\n" \o ContextLines(shown)
                /\ \A k \in 1..(n - 4) : ~Contains(Context(h), ContextLines(<<h[k]>>))

\* the second query of a session arrives with five turns of history, the first
\* of which is left out of the context
C34_Witness ==
    \E r \in Requests :
        /\ requests[r].at = "invoke"
        /\ Len(HistoryAtInvoke(r)) = 5
        /\ HistoryAtInvoke(r)[1] = PriorTurns[1]
        /\ LastMessages(HistoryAtInvoke(r))[1] = PriorTurns[2]
        /\ ~Contains(Context(HistoryAtInvoke(r)), "hotels in goa")

\* the identifiers phase 2 may use: those of the first 30 phase-1 hotels
FirstThirtyIds(hotels_data) ==
    IdsOf(SubSeq(hotels_data, 1, Min(Len(hotels_data), 30)))

\* C35: one hotel search issues at most 30 per-hotel offer requests and never
\* two for the same identifier; each step of phase 2 issues exactly one request,
\* for the next identifier, in phase-1 order, among those of the first 30
\* phase-1 hotels.
C35_OfferRequestsBounded ==
    /\ [](/\ Len(OfferRequests) <= 30
          /\ \A a, b \in 1..Len(OfferRequests) :
                a # b => OfferRequests[a].arg # OfferRequests[b].arg)
    /\ [][(pc = "hotel_tool" /\ frame # None) =>
            LET ids == FirstThirtyIds(frame[1].hotels_data)
                n == Len(OfferRequests)
            IN  /\ n < Len(ids)
                /\ Len(OfferRequests') = n + 1
                /\ OfferRequests'[n + 1].arg = ids[n + 1]
                /\ SubSeq(OfferRequests', 1, n) = OfferRequests]_vars

\* of 31 hotels listed, the first 30 were asked for offers and the search ended
C35_Witness ==
    /\ pc = "synthesis"
    /\ frame = None
    /\ calls[1] = Call("search_hotels_by_city", "DEL", 30)
    /\ Len(OfferRequests) = 30
    /\ OfferRequests[1].arg = "H1"
    /\ OfferRequests[30].arg = "H30"

\* a hotel without identifier among the first 30 is not made up for by the 31st
ThirtyFirstNeverAsked ==
    /\ pc = "synthesis"
    /\ frame = None
    /\ calls[1] = Call("search_hotels_by_city", "DEL", 29)
    /\ Len(OfferRequests) = 29
    /\ OfferRequests[29].arg = "H30"

\* C36: in every run whose returned intent is `follow_up`, the graph goes from
\* the extractor straight to synthesis and calls no provider; the agent state
\* holds no flights and no hotels, whatever the session retained, and the
\* response at the end is the literal no-results message.
C36_FollowUpNoResults ==
    (raw # None /\ ReturnedType = "follow_up") =>
        /\ calls = <<Call("structured.invoke", state.query, 0)>>
        /\ state.flights = None
        /\ state.hotels = None
        /\ \/ pc = "synthesis" /\ visited = <<"intent">>
           \/ /\ pc = "END"
              /\ visited = <<"intent", "synthesis">>
              /\ state.response = Some(NoResultsMsg)

\* a follow-up on a session that holds a flight ended with the no-results text
C36_Witness ==
    /\ pc = "END"
    /\ raw # None
    /\ ReturnedType = "follow_up"
    /\ sessions[SessionId].last_flights # None
    /\ Len(sessions[SessionId].last_flights[1]) = 1
    /\ Len(state.conversation_history) = 3
    /\ state.response = Some(NoResultsMsg)

TerminalStages == {"clarify", "synthesis", "web_search_fallback"}

\* an upper bound on the steps a run still has to take: the stages that can
\* still follow, and the calls left in the loop of the stage under way
StepsLeft ==
    CASE pc = "intent" -> 200
      [] pc = "flight_tool" -> 150
      [] pc = "hotel_tool" ->
            50 + (IF frame = None THEN HotelIdLimit + 1
                  ELSE Len(frame[1].hotelIds) - frame[1].k + 1)
      [] pc = "web_search_fallback" ->
            10 + (IF frame = None THEN Len(Backends) + 1
                  ELSE Len(Backends) - frame[1].k + 1)
      [] pc \in {"clarify", "synthesis"} -> 1
      [] OTHER -> 0

\* C37: every run terminates and executes each stage at most once: no stage
\* occurs twice among the stages run, the extractor is the first of them, a
\* terminal stage (clarify, synthesis, fallback cascade) is the last of them
\* and a run at the end has run one; every step strictly lowers a bound on the
\* steps left, which is never negative, and a run with steps left can step.
C37_TerminatesOncePerStage ==
    /\ [](/\ \A a, b \in 1..Len(visited) : a # b => visited[a] # visited[b]
          /\ IF visited = <<>> THEN pc = "intent" ELSE visited[1] = "intent"
          /\ \A k \in 1..Len(visited) :
                visited[k] \in TerminalStages => k = Len(visited)
          /\ pc = "END" => visited[Len(visited)] \in TerminalStages
          /\ StepsLeft >= 0
          /\ StepsLeft > 0 => CanStep
          /\ StepsLeft = 0 => pc = "END")
    /\ [][StepsLeft' < StepsLeft]_vars

\* the longest run: four stages, the flight and hotel searches once each
C37_Witness ==
    /\ pc = "END"
    /\ StepsLeft = 0
    /\ Len(visited) = 4
    /\ visited[2] = "flight_tool"
    /\ visited[3] = "hotel_tool"
    /\ Len(OfferRequests) = MaxHotels

\* request r works on a session that the store already held when r arrived
OnStoredSession(r) ==
    /\ requests[r].session # None
    /\ requests[r].session[1].created_at = "earlier"

\* C38: a failed query leaves the stored session unchanged. No step of a query
\* that ends in failure writes to the store when its session already existed:
\* neither the session lookup with the user turn appended, nor the failing
\* agent call (an exception, or a final state without response); and a failed
\* request takes no further step.
C38_FailedQueryLeavesSession ==
    [][\A r \in Requests :
          /\ (requests[r].at = "idle" /\ requests'[r].at = "invoke"
                /\ requests'[r].session[1].session_id \in DOMAIN sessions)
             => /\ sessions' = sessions
                /\ requests'[r].session[1].conversation_history =
                      Append(sessions[requests'[r].session[1].session_id]
                                 .conversation_history,
                             Turn("user", requests'[r].query))
          /\ (requests[r].at = "invoke" /\ requests'[r].at = "failed")
             => /\ sessions' = sessions
                /\ requests'[r].status = 500
          /\ requests[r].at = "failed" => requests'[r] = requests[r]]_vars

\* a query on the stored session failed; the store holds the two earlier turns
\* and the request's own copy holds the user turn as well
C38_Witness ==
    \E r \in Requests :
        /\ requests[r].at = "failed"
        /\ OnStoredSession(r)
        /\ \A q \in Requests \ {r} : requests[q].at = "idle"
        /\ sessions[SessionId].conversation_history = PriorTurns
        /\ sessions[SessionId].last_flights = None
        /\ Len(requests[r].session[1].conversation_history) = Len(PriorTurns) + 1

\* request r calls get_or_create_session(id) in this step
AsksFor(r, id) ==
    /\ requests[r].at = "idle"
    /\ requests'[r].at = "invoke"
    /\ requests'[r].session[1].session_id = id

\* C39: a deleted session stays deleted until a new request asks for it: a step
\* after which get_session(id) returns a session where it returned nothing
\* before is a call of get_or_create_session(id) by an arriving request, also
\* when a query for that id was in flight at the time of the delete.
C39_DeletedStaysDeleted ==
    [][(get_session(sessions, SessionId) = None
          /\ get_session(sessions', SessionId) # None)
       => \E r \in Requests : AsksFor(r, SessionId)]_vars

\* the session was deleted while a query for it has its answer and is about to
\* save the session
C39_Witness ==
    \E r \in Requests :
        /\ requests[r].at = "respond"
        /\ requests[r].session[1].session_id = SessionId
        /\ get_session(sessions, SessionId) = None
        /\ \A q \in Requests \ {r} : requests[q].at = "idle"

\* the extraction after the hotel origin/destination swap
Swapped == HotelSwap(Normalize(raw[1]))

\* intent_node rewrote the intent to clarify
Downgraded ==
    /\ raw # None
    /\ ReturnedType = "clarify"
    /\ \/ Get(Swapped, "intent") # Some("clarify")
       \/ Get(Swapped, "reasoning") # Get(Returned, "reasoning")

\* C40: the force-clarify rewrite changes only `intent` and `reasoning`: when
\* intent_node downgrades the intent to clarify, the returned intent has the
\* keys it had after the hotel origin/destination swap, and origin,
\* destination, check_in, check_out and travelers keep the values they had then.
C40_RewriteKeepsFields ==
    Downgraded =>
        /\ DOMAIN Returned = DOMAIN Swapped
        /\ \A k \in {"origin", "destination", "check_in", "check_out", "travelers"} :
              Get(Returned, k) = Get(Swapped, k)

\* a hotel search named its city as origin and gave an unparseable date: the
\* city was moved to destination, and the downgraded intent keeps it there
C40_Witness ==
    /\ Downgraded
    /\ Extraction["intent"] = Some("hotel_search")
    /\ Extraction["origin"] = Some("BOM")
    /\ Extraction["destination"] = None
    /\ Extraction["check_in"] = Some("next friday")
    /\ Returned["destination"] = Some("BOM")
    /\ Returned["origin"] = None
    /\ Returned["check_in"] = Some("next friday")
    /\ Returned["reasoning"] = Some(InvalidDateMsg)

====
